---- MODULE Spec2Model ----
(***************************************************************************)
(* A model of the key-value store: the single-node durable engine          *)
(* (server/wal.py, server/store.py, server/indexes/*.py) and the Bully     *)
(* leader election of the primary cluster (cluster/election.py).           *)
(*                                                                         *)
(* Spec          the single-node store with process kills and restarts     *)
(* SpecElection  the 3-node election state machine                         *)
(***************************************************************************)
EXTENDS Integers, Sequences, FiniteSets, Bags, TLC

\* ------------------------------------------------------------------ bounds

\* A run makes at most MaxCalls mutating calls (set, delete of a present key,
\* bulk_set), at most MaxSnaps snapshots (ticks of the snapshot loop, shutdowns)
\* and at most MaxKills process kills.
MaxCalls == 2

MaxSnaps == 1

MaxKills == 1

\* time.time() readings are drawn from 1..MaxClock.
MaxClock == 2

\* The monitors of the cluster see at most MaxTimeouts leader timeouts.
MaxTimeouts == 1

\* The reading thread makes at most MaxGets get calls.
MaxGets == 2

\* Monitors start no election while MaxThreads election threads are alive.
MaxThreads == 3

\* The clients of the masterless cluster make at most MaxWrites writes.
MaxWrites == 2

\* The clients of the leader-based cluster make at most MaxRequests requests, a
\* request is forwarded at most MaxHops - 1 times before a forward times out, and
\* at most MaxChanges coordinator messages arrive meanwhile.
MaxRequests == 2

MaxHops == 3

MaxChanges == 1

\* ------------------------------------------------------------ value domain

Keys == {"k1", "k2"}

\* str(data['key']) of a request is any string, the empty one included: the
\* keys a Table may hold.
TableKeys == Keys \cup {""}

\* Python's None (an absent key, a null field).
None == "None"

\* Values are strings; CharsOf gives the characters of each.
Values == {"", "a", "A b"}

Queries == {"", "b a", "B"}

CharsOf(s) ==
    CASE s = "" -> <<>>
      [] s = "a" -> <<"a">>
      [] s = "A b" -> <<"A", " ", "b">>
      [] s = "b a" -> <<"b", " ", "a">>
      [] s = "B" -> <<"B">>
      [] OTHER -> <<>>

Clock == 1..MaxClock

\* ------------------------------------------------- inverted_index.py

\* str.lower() on one character.
Lower(c) ==
    CASE c = "A" -> "a"
      [] c = "B" -> "b"
      [] OTHER -> c

\* The regex class \w.
IsWordChar(c) == c \in {"a", "b", "A", "B"}

RECURSIVE FindAll(_, _, _, _)
\* re.findall(r'\b\w+\b', text): the maximal runs of word characters, in order.
FindAll(text, i, run, acc) ==
    IF i > Len(text)
    THEN (IF run = <<>> THEN acc ELSE Append(acc, run))
    ELSE IF IsWordChar(text[i])
         THEN FindAll(text, i + 1, Append(run, text[i]), acc)
         ELSE FindAll(text, i + 1, <<>>, IF run = <<>> THEN acc ELSE Append(acc, run))

\* InvertedIndex._tokenize: lowercase, then the word runs (a list).
tokenize(s) ==
    LET chars == CharsOf(s)
        low == [i \in 1..Len(chars) |-> Lower(chars[i])]
    IN FindAll(low, 1, <<>>, <<>>)

Range(f) == {f[i] : i \in DOMAIN f}

TokenSet(s) == Range(tokenize(s))

\* Every word a posting can be made for.
Words == UNION {TokenSet(s) : s \in Values \cup Queries}

EmptyIndex == [w \in Words |-> {}]

\* InvertedIndex.add
idx_add(idx, key, value) ==
    [w \in Words |-> IF w \in TokenSet(value) THEN idx[w] \cup {key} ELSE idx[w]]

\* InvertedIndex.remove: the key leaves every posting (empty postings are pruned;
\* a pruned posting and an empty one read the same).
idx_remove(idx, key) == [w \in Words |-> idx[w] \ {key}]

\* InvertedIndex.update
idx_update(idx, key, old_value, new_value) ==
    idx_add(idx_remove(idx, key), key, new_value)

RECURSIVE InterAll(_, _)
InterAll(results, i) ==
    IF i > Len(results) THEN Keys
    ELSE results[i] \cap InterAll(results, i + 1)

\* InvertedIndex.search: the result list as a set (its order is unspecified).
idx_search(idx, query, mode) ==
    LET words == tokenize(query)
        results == [i \in 1..Len(words) |-> idx[words[i]]]
    IN IF words = <<>> THEN {}
       ELSE IF mode = "AND" THEN InterAll(results, 1)
       ELSE UNION Range(results)

\* ------------------------------------------------- embedding_index.py

\* value.strip() is empty
IsBlank(s) == \A i \in 1..Len(CharsOf(s)) : CharsOf(s)[i] = " "

EmptyEmb == [k \in TableKeys |-> None]

\* EmbeddingIndex.add / update: embed(value) stands as the value it was made from.
emb_add(emb, key, value) ==
    IF IsBlank(value) THEN emb ELSE [emb EXCEPT ![key] = value]

\* EmbeddingIndex.remove
emb_remove(emb, key) == [emb EXCEPT ![key] = None]

\* ----------------------------------------------------------------- wal.py

MutOps == {"SET", "DELETE", "BULK_SET"}

\* One WAL entry; the fields a variant lacks are None / <<>>.
Entry(op, key, value, items, seq) ==
    [op |-> op, key |-> key, value |-> value, items |-> items, seq |-> seq]

NoEntry == Entry("NONE", None, None, <<>>, 0)

\* A line of wal.log: the entry written on it, and whether the line starts with
\* the torn record of a writer killed in mid-write. A torn record has no newline,
\* so the next record written lands on the same line. ent = NoEntry: the line is
\* the torn record alone (the file ends without a newline).
Line(torn, ent) == [torn |-> torn, ent |-> ent]

EndsPartial(file) == file # <<>> /\ file[Len(file)].ent = NoEntry

\* int(time.time() * 1000000) for the clock reading t.
seq_of(t) == t

\* The file after f.write(json.dumps(entry) + "\n") in append mode.
wal_write(file, entry) ==
    IF EndsPartial(file)
    THEN [file EXCEPT ![Len(file)] = Line(TRUE, entry)]
    ELSE Append(file, Line(FALSE, entry))

\* WAL.append
wal_append(file, operation, key, value, t) ==
    wal_write(file, Entry(operation, key, value, <<>>, seq_of(t)))

\* WAL.append_bulk
wal_append_bulk(file, items, t) ==
    wal_write(file, Entry("BULK_SET", None, None, items, seq_of(t)))

\* The file when the writer is killed inside f.write: a record without newline.
wal_torn(file) ==
    IF EndsPartial(file) THEN file ELSE Append(file, Line(TRUE, NoEntry))

\* json.loads(line) succeeds
Parses(line) == ~line.torn /\ line.ent # NoEntry

RECURSIVE wal_replay(_)
\* WAL.replay: the parseable lines, in file order.
wal_replay(file) ==
    IF file = <<>> THEN <<>>
    ELSE IF Parses(Head(file))
         THEN <<Head(file).ent>> \o wal_replay(Tail(file))
         ELSE wal_replay(Tail(file))

\* A clear that leaves the log as it is.
wal_keep(file) == file

\* WAL.clear
wal_clear(file) == <<>>

\* --------------------------------------------------------------- store.py

\* The in-memory state of a KVStore: _data, inverted_index.index,
\* embedding_index.embeddings.
Mem(d, i, e) == [data |-> d, index |-> i, emb |-> e]

EmptyTable == [k \in TableKeys |-> None]

\* Python truthiness of _data.get(key): not None and not "".
Truthy(v) == v # None /\ v # ""

\* A set that never takes the old value's words out of the index.
store_set_add_only(st, key, value) ==
    Mem([st.data EXCEPT ![key] = value],
        idx_add(st.index, key, value),
        emb_add(st.emb, key, value))

\* KVStore.set, steps 2 and 3
store_set(st, key, value) ==
    LET old_value == st.data[key]
    IN Mem([st.data EXCEPT ![key] = value],
           IF Truthy(old_value)
           THEN idx_update(st.index, key, old_value, value)
           ELSE idx_add(st.index, key, value),
           emb_add(st.emb, key, value))

\* A delete that takes every key for present.
delete_found_always(d, key) == TRUE

\* KVStore.delete: the test `key not in self._data`
delete_found(d, key) == d[key] # None

\* KVStore.delete, steps 2 to 4
store_delete(st, key) ==
    LET old_value == st.data[key]
    IN Mem([st.data EXCEPT ![key] = None],
           IF Truthy(old_value) THEN idx_remove(st.index, key) ELSE st.index,
           IF Truthy(old_value) THEN emb_remove(st.emb, key) ELSE st.emb)

RECURSIVE store_bulk_set(_, _)
\* KVStore.bulk_set, step 2: the items in order
store_bulk_set(st, items) ==
    IF items = <<>> THEN st
    ELSE store_bulk_set(store_set(st, Head(items)[1], Head(items)[2]), Tail(items))

\* A get that tests the value's truth instead of `is not None`.
store_get_truthy(d, key) ==
    LET value == d[key]
    IN [success |-> Truthy(value), value |-> value]

\* KVStore.get
store_get(d, key) ==
    LET value == d[key]
    IN [success |-> value # None, value |-> value]

\* KVStore.search_text
search_text(idx, query, mode) == idx_search(idx, query, mode)

\* A file: missing, corrupt (truncated or partly written) or holding `body`.
File(st, body) == [st |-> st, body |-> body]

\* open(path, 'w'): the file exists and is empty. `empty` is the body kept for
\* a file that cannot be read.
Truncated(empty) == File("corrupt", empty)

\* KVStore._load_snapshot
load_snapshot(file) == IF file.st = "ok" THEN file.body ELSE EmptyTable

\* InvertedIndex._load
idx_load(file) == IF file.st = "ok" THEN file.body ELSE EmptyIndex

\* EmbeddingIndex._load
emb_load(file) == IF file.st = "ok" THEN file.body ELSE EmptyEmb

\* EmbeddingIndex.save: nothing is written when there are no embeddings.
emb_save(file, emb) == IF emb = EmptyEmb THEN file ELSE File("ok", emb)

RECURSIVE replay_items(_, _)
\* KVStore._replay_wal, BULK_SET branch
replay_items(st, items) ==
    IF items = <<>> THEN st
    ELSE LET key == Head(items)[1]
             value == Head(items)[2]
         IN replay_items(Mem([st.data EXCEPT ![key] = value],
                             idx_add(st.index, key, value), st.emb),
                         Tail(items))

\* KVStore._replay_wal, one entry. `if key:` passes over the empty key.
replay_entry(st, entry) ==
    CASE entry.op = "SET" ->
           IF Truthy(entry.key)
           THEN Mem([st.data EXCEPT ![entry.key] = entry.value],
                    idx_add(st.index, entry.key, entry.value), st.emb)
           ELSE st
      [] entry.op = "DELETE" ->
           IF Truthy(entry.key) /\ st.data[entry.key] # None
           THEN Mem([st.data EXCEPT ![entry.key] = None],
                    IF Truthy(st.data[entry.key])
                    THEN idx_remove(st.index, entry.key) ELSE st.index,
                    st.emb)
           ELSE st
      [] entry.op = "BULK_SET" -> replay_items(st, entry.items)
      [] OTHER -> st

RECURSIVE replay_wal(_, _)
\* KVStore._replay_wal: the entries in order
replay_wal(st, entries) ==
    IF entries = <<>> THEN st
    ELSE replay_wal(replay_entry(st, Head(entries)), Tail(entries))

\* ------------------------------------------------------------- the state

VARIABLES
    data,        \* KVStore._data, the Table (None: the key is absent)
    index,       \* InvertedIndex.index, word -> set of keys
    emb,         \* EmbeddingIndex.embeddings, key -> the value embedded
    dataFile,    \* data.json, the snapshot
    walFile,     \* wal.log, a sequence of lines
    indexFile,   \* inverted_index.json
    embFile,     \* embeddings/keys.json with vectors.npz
    pc,          \* where the process is: "down", or the step the lock holder is at
    task,        \* what holds the store lock: "none", "op", "tick", "shutdown", "recover"
    cur,         \* the mutating call in progress, or killed in progress (NoEntry: none)
    debug,       \* the debug argument of the call in progress
    found,       \* history: the key of the last delete call was in the Table
    ret,         \* the response just returned to the caller (NoRet: none)
    acked,       \* history: per key, the effect of the last acknowledged mutation
                 \* (after a kill: the Table the restart served, what a client reads)
    bulk,        \* history: the latest bulk_set call, and its keys not written since
    used,        \* history: the calls, snapshots and kills made so far
    skipped,     \* history: the keys whose last acknowledged write was a debug
                 \* call that skipped the snapshot write
    closed       \* history: the Table at the shutdown the process is down from

storeVars ==
    <<data, index, emb, dataFile, walFile, indexFile, embFile, pc, task,
      cur, debug, found, ret, acked, bulk, used, skipped, closed>>

\* The state of the cluster's LeaderElection objects, one per node.
VARIABLES
    leader_id,             \* per node: the leader it follows (NoLeader: None)
    is_leader,             \* per node: it acts as the primary
    election_in_progress,  \* per node: _election_in_progress
    started,               \* per node: ClusterNode.start was called
    serving,               \* per node: app.run listens, requests are answered
    threads,               \* the bag of threads inside start_election
    refused,               \* history: a message met a node that did not listen yet
    dropped,               \* history: the network lost or delayed a message
    timeouts               \* history: the leader timeouts the monitors have seen

electionVars ==
    <<leader_id, is_leader, election_in_progress, started, serving, threads,
      refused, dropped, timeouts>>

\* The threads of one server process that call the store at the same time.
VARIABLES
    lock,     \* KVStore._lock: the thread that holds it (NoThread: free)
    tpc,      \* per thread: where it is in its call
    tdone     \* per thread: the items applied (a writer), the gets made (the reader)

threadVars == <<lock, tpc, tdone>>

\* The masterless cluster, seen on one key.
VARIABLES
    mtable,     \* per node: the value its store holds for the key
    mclock,     \* per node: vector_clocks, the entry of the key
    mlocal,     \* per node: the client write whose route is between store and clock
    wr,         \* the replicated writes, in the order of their timestamps
    flight,     \* the replicate messages posted and not yet received
    mapply,     \* the replicate messages merged and not yet applied
    delivered,  \* the replicate messages whose handler has returned
    mlost,      \* a replicate message was lost
    mnow,       \* the time
    issued      \* the client writes made so far

masterVars == <<mtable, mclock, mlocal, wr, flight, mapply, delivered, mlost, mnow, issued>>

\* The client routes of the leader-based cluster.
VARIABLES
    ctable,     \* per node: the Table of its store
    chain,      \* the handlers of the request under way, the client's node first
    cresp,      \* the response the client got to its last request
    sent,       \* the replicate posts made for the request under way
    capplied,   \* the handlers that applied the request to their own store
    ctable0,    \* the Tables when the request came in
    creqs,      \* the client requests made so far
    cchanges    \* the coordinator messages received while requests are served

clusterVars == <<ctable, chain, cresp, sent, capplied, ctable0, creqs, cchanges>>

\* The heartbeats the nodes receive.
VARIABLES
    last_heartbeat,  \* per node: _last_heartbeat, a reading of the clock
    now,             \* time.time(), in seconds since the nodes were built
    beat             \* the heartbeat received last: its sender and its receiver

beatVars == <<last_heartbeat, now, beat>>

\* What the actions of the store, of the election, of the masterless nodes and of
\* the cluster routes leave alone.
notStore == <<electionVars, threadVars, masterVars, clusterVars, beatVars>>

notElection == <<storeVars, threadVars, masterVars, clusterVars, beatVars>>

notMaster == <<storeVars, electionVars, threadVars, clusterVars, beatVars>>

notCluster == <<storeVars, threadVars, masterVars, beatVars,
                election_in_progress, started, serving, threads, refused, dropped, timeouts>>

\* What a call leaves alone when it fails or only reads.
Observed == <<data, index, emb, dataFile, walFile, indexFile, embFile>>

\* A response: of get, {success, value}; of set, delete and bulk_set,
\* {success, seq} (seq 0: null); of search_text, the keys. `key` is the key or the
\* query asked for, `pre` the stored state when a call that only reads, or fails,
\* was made.
Response(op, key, success, seq, value, keys, pre) ==
    [op |-> op, key |-> key, success |-> success, seq |-> seq, value |-> value,
     keys |-> keys, pre |-> pre]

NoRet == Response("NONE", None, FALSE, 0, None, {}, <<>>)

\* No bulk_set call is followed.
NoBulk == [items |-> <<>>, keys |-> {}]

\* The history after a later call writes `keys`: they leave the bulk's keys.
Overwritten(b, keys) ==
    IF b.keys \subseteq keys THEN NoBulk ELSE [b EXCEPT !.keys = @ \ keys]

\* The item lists bulk_set is called with: two keys, a key twice, one key.
BulkInputs ==
    { <<<<"k1", "a">>, <<"k2", "A b">>>>,
      <<<<"k1", "A b">>, <<"k1", "">>>>,
      <<<<"k2", "a">>>> }

Modes == {"AND", "OR"}

\* The keys an entry writes, and what it leaves in each.
RECURSIVE ItemKeys(_)
ItemKeys(items) ==
    IF items = <<>> THEN {} ELSE {Head(items)[1]} \cup ItemKeys(Tail(items))

EntryKeys(e) ==
    CASE e.op \in {"SET", "DELETE"} -> {e.key}
      [] e.op = "BULK_SET" -> ItemKeys(e.items)
      [] OTHER -> {}

\* The value of the last item of `items` that names key k.
LastItem(items, k) ==
    LET at == {i \in 1..Len(items) : items[i][1] = k}
    IN items[CHOOSE i \in at : \A j \in at : j <= i][2]

EntryEffect(e, k) ==
    CASE e.op = "SET" -> e.value
      [] e.op = "DELETE" -> None
      [] OTHER -> LastItem(e.items, k)

\* The lock is free and the process serves requests.
Idle == pc = "idle"

\* The run may make one more mutating call, snapshot, kill.
MayCall == used.calls < MaxCalls

MaySnap == used.snaps < MaxSnaps

MayKill == used.kills < MaxKills

\* The process was killed at some time.
EverKilled == used.kills > 0

Forget ==
    /\ data' = EmptyTable
    /\ index' = EmptyIndex
    /\ emb' = EmptyEmb

\* The process is down from shutdown() with Table d / is not.
Closed(d) == [on |-> TRUE, table |-> d]

NotClosed == [on |-> FALSE, table |-> EmptyTable]

\* The Table of a data directory left behind by set("k1", "A b") and shutdown().
OldTable == store_set(Mem(EmptyTable, EmptyIndex, EmptyEmb), "k1", "A b")

\* KVStore.__init__ has run on an empty data directory, or the process is about
\* to start on the data directory a run that set k1 and shut down left behind.
StoreInit ==
    /\ data = EmptyTable
    /\ index = EmptyIndex
    /\ emb = EmptyEmb
    /\ walFile = <<>>
    /\ \/ /\ pc = "idle"
          /\ dataFile = File("missing", EmptyTable)
          /\ indexFile = File("missing", EmptyIndex)
          /\ embFile = File("missing", EmptyEmb)
          /\ acked = EmptyTable
          /\ closed = NotClosed
       \/ /\ pc = "down"
          /\ dataFile = File("ok", OldTable.data)
          /\ indexFile = File("ok", OldTable.index)
          /\ embFile = File("ok", OldTable.emb)
          /\ acked = OldTable.data
          /\ closed = Closed(OldTable.data)
    /\ task = "none"
    /\ cur = NoEntry
    /\ debug = FALSE
    /\ found = FALSE
    /\ ret = NoRet
    /\ bulk = NoBulk
    /\ used = [calls |-> 0, snaps |-> 0, kills |-> 0]
    /\ skipped = {}

\* --------------------------------------------------------- the operations

\* KVStore.set up to step 3: the WAL append, then memory and the indexes.
SetCall(key, value, dbg, t) ==
    /\ Idle
    /\ MayCall
    /\ used' = [used EXCEPT !.calls = @ + 1]
    /\ walFile' = wal_append(walFile, "SET", key, value, t)
    /\ LET st == store_set(Mem(data, index, emb), key, value)
       IN /\ data' = st.data
          /\ index' = st.index
          /\ emb' = st.emb
    /\ cur' = Entry("SET", key, value, <<>>, seq_of(t))
    /\ debug' = dbg
    /\ pc' = "applied"
    /\ task' = "op"
    /\ ret' = NoRet
    /\ bulk' = Overwritten(bulk, {key})
    /\ UNCHANGED <<dataFile, indexFile, embFile, acked, found>>
    /\ UNCHANGED <<skipped, closed>>
    /\ UNCHANGED notStore

\* KVStore.delete: the absent key returns at once; the present one goes up to step 4.
DeleteCall(key, t) ==
    /\ Idle
    /\ IF ~delete_found(data, key)
       THEN /\ ret' = Response("DELETE", key, FALSE, 0, None, {}, Observed)
            /\ found' = (data[key] # None)
            /\ UNCHANGED <<data, index, emb, dataFile, walFile, indexFile, embFile,
                           pc, task, cur, debug, acked, bulk, used>>
       ELSE /\ MayCall
            /\ used' = [used EXCEPT !.calls = @ + 1]
            /\ walFile' = wal_append(walFile, "DELETE", key, None, t)
            /\ LET st == store_delete(Mem(data, index, emb), key)
               IN /\ data' = st.data
                  /\ index' = st.index
                  /\ emb' = st.emb
            /\ cur' = Entry("DELETE", key, None, <<>>, seq_of(t))
            /\ debug' = FALSE
            /\ pc' = "applied"
            /\ task' = "op"
            /\ ret' = NoRet
            /\ found' = (data[key] # None)
            /\ bulk' = Overwritten(bulk, {key})
            /\ UNCHANGED <<dataFile, indexFile, embFile, acked>>
    /\ UNCHANGED <<skipped, closed>>
    /\ UNCHANGED notStore

\* KVStore.bulk_set up to step 2.
BulkSetCall(items, dbg, t) ==
    /\ Idle
    /\ MayCall
    /\ used' = [used EXCEPT !.calls = @ + 1]
    /\ walFile' = wal_append_bulk(walFile, items, t)
    /\ LET st == store_bulk_set(Mem(data, index, emb), items)
       IN /\ data' = st.data
          /\ index' = st.index
          /\ emb' = st.emb
    /\ cur' = Entry("BULK_SET", None, None, items, seq_of(t))
    /\ debug' = dbg
    /\ pc' = "applied"
    /\ task' = "op"
    /\ ret' = NoRet
    /\ bulk' = [items |-> items, keys |-> ItemKeys(items)]
    /\ UNCHANGED <<dataFile, indexFile, embFile, acked, found>>
    /\ UNCHANGED <<skipped, closed>>
    /\ UNCHANGED notStore

\* KVStore._save with debug: random.random() < debug_failure_rate, the save is skipped.
SaveSkip ==
    /\ pc = "applied"
    /\ debug
    /\ pc' = "saved"
    /\ UNCHANGED <<data, index, emb, dataFile, walFile, indexFile, embFile, task,
                   cur, debug, ret, acked, bulk, used, found>>
    /\ UNCHANGED <<skipped, closed>>
    /\ UNCHANGED notStore

\* KVStore._save: open(self.data_file, 'w').
SaveOpen ==
    /\ pc \in {"applied", "replayed"}
    /\ dataFile' = Truncated(EmptyTable)
    /\ pc' = "saving"
    /\ UNCHANGED <<data, index, emb, walFile, indexFile, embFile, task,
                   cur, debug, ret, acked, bulk, used, found>>
    /\ UNCHANGED <<skipped, closed>>
    /\ UNCHANGED notStore

\* A dump that writes an empty object whatever the Table holds.
SaveWriteEmpty ==
    /\ pc = "saving"
    /\ dataFile' = File("ok", EmptyTable)
    /\ pc' = "saved"
    /\ UNCHANGED <<data, index, emb, walFile, indexFile, embFile, task,
                   cur, debug, ret, acked, bulk, used, found>>
    /\ UNCHANGED <<skipped, closed>>
    /\ UNCHANGED notStore

\* KVStore._save: json.dump, flush, fsync.
SaveWrite ==
    /\ pc = "saving"
    /\ dataFile' = File("ok", data)
    /\ pc' = "saved"
    /\ UNCHANGED <<data, index, emb, walFile, indexFile, embFile, task,
                   cur, debug, ret, acked, bulk, used, found>>
    /\ UNCHANGED <<skipped, closed>>
    /\ UNCHANGED notStore

\* The acknowledged effect of entry e on the history.
Ack(table, e) ==
    [k \in TableKeys |-> IF k \in EntryKeys(e) THEN EntryEffect(e, k) ELSE table[k]]

\* The return of set, delete and bulk_set: {"success": True, "seq": seq}.
Return ==
    /\ pc = "saved"
    /\ task = "op"
    /\ ret' = Response(cur.op, cur.key, TRUE, cur.seq, None, {}, <<>>)
    /\ acked' = Ack(acked, cur)
    /\ cur' = NoEntry
    /\ debug' = FALSE
    /\ pc' = "idle"
    /\ task' = "none"
    /\ UNCHANGED <<data, index, emb, dataFile, walFile, indexFile, embFile, bulk, used, found>>
    /\ skipped' = IF debug /\ dataFile # File("ok", data)
                  THEN skipped \cup EntryKeys(cur)
                  ELSE skipped \ EntryKeys(cur)
    /\ UNCHANGED closed
    /\ UNCHANGED notStore

\* KVStore.get
Get(key) ==
    /\ Idle
    /\ LET r == store_get(data, key)
       IN ret' = Response("GET", key, r.success, 0, r.value, {}, Observed)
    /\ UNCHANGED <<data, index, emb, dataFile, walFile, indexFile, embFile,
                   pc, task, cur, debug, acked, bulk, used, found>>
    /\ UNCHANGED <<skipped, closed>>
    /\ UNCHANGED notStore

\* KVStore.search_text
SearchText(query, mode) ==
    /\ Idle
    /\ ret' = Response(mode, query, TRUE, 0, None, search_text(index, query, mode),
                       Observed)
    /\ UNCHANGED <<data, index, emb, dataFile, walFile, indexFile, embFile,
                   pc, task, cur, debug, acked, bulk, used, found>>
    /\ UNCHANGED <<skipped, closed>>
    /\ UNCHANGED notStore

\* KVStore._create_snapshot from the snapshot loop (stop = FALSE) or from
\* shutdown (stop = TRUE): take the lock, open the snapshot file.
SnapshotBegin(stop) ==
    /\ Idle
    /\ MaySnap
    /\ used' = [used EXCEPT !.snaps = @ + 1]
    /\ task' = IF stop THEN "shutdown" ELSE "tick"
    /\ dataFile' = Truncated(EmptyTable)
    /\ pc' = "saving"
    /\ ret' = NoRet
    /\ UNCHANGED <<data, index, emb, walFile, indexFile, embFile,
                   cur, debug, acked, bulk, found>>
    /\ UNCHANGED <<skipped, closed>>
    /\ UNCHANGED notStore

\* InvertedIndex.save: open(self.index_path, 'w').
IndexSaveOpen ==
    /\ pc = "saved"
    /\ task \in {"tick", "shutdown", "recover"}
    /\ indexFile' = Truncated(EmptyIndex)
    /\ pc' = "isaving"
    /\ UNCHANGED <<data, index, emb, dataFile, walFile, embFile, task,
                   cur, debug, ret, acked, bulk, used, found>>
    /\ UNCHANGED <<skipped, closed>>
    /\ UNCHANGED notStore

\* InvertedIndex.save: json.dump. It ends _replay_wal.
IndexSaveWrite ==
    /\ pc = "isaving"
    /\ indexFile' = File("ok", index)
    /\ pc' = IF task = "recover" THEN "started" ELSE "isaved"
    /\ UNCHANGED <<data, index, emb, dataFile, walFile, embFile, task,
                   cur, debug, ret, acked, bulk, used, found>>
    /\ UNCHANGED <<skipped, closed>>
    /\ UNCHANGED notStore

\* EmbeddingIndex.save
EmbSave ==
    /\ pc = "isaved"
    /\ embFile' = emb_save(embFile, emb)
    /\ pc' = "esaved"
    /\ UNCHANGED <<data, index, emb, dataFile, walFile, indexFile, task,
                   cur, debug, ret, acked, bulk, used, found>>
    /\ UNCHANGED <<skipped, closed>>
    /\ UNCHANGED notStore

\* self.wal.clear() ends _create_snapshot; after shutdown the process exits.
WalClear ==
    /\ pc = "esaved"
    /\ walFile' = wal_clear(walFile)
    /\ IF task = "shutdown"
       THEN pc' = "down" /\ Forget
       ELSE pc' = "idle" /\ UNCHANGED <<data, index, emb>>
    /\ task' = "none"
    /\ UNCHANGED <<dataFile, indexFile, embFile, cur, debug, ret, acked, bulk, used, found>>
    /\ closed' = IF task = "shutdown" THEN Closed(data) ELSE closed
    /\ UNCHANGED skipped
    /\ UNCHANGED notStore

\* SIGKILL between two steps: memory is lost, the files stay as they are.
Kill ==
    /\ pc # "down"
    /\ MayKill
    /\ used' = [used EXCEPT !.kills = @ + 1]
    /\ pc' = "down"
    /\ task' = "none"
    /\ Forget
    /\ debug' = FALSE
    /\ ret' = NoRet
    /\ UNCHANGED <<dataFile, walFile, indexFile, embFile, cur, acked, bulk, found>>
    /\ closed' = NotClosed
    /\ UNCHANGED skipped
    /\ UNCHANGED notStore

\* SIGKILL inside the f.write of WAL.append or WAL.append_bulk of call e.
KillInAppend(e) ==
    /\ Idle
    /\ MayCall
    /\ MayKill
    /\ used' = [used EXCEPT !.calls = @ + 1, !.kills = @ + 1]
    /\ e.op = "DELETE" => delete_found(data, e.key)
    /\ walFile' = wal_torn(walFile)
    /\ cur' = e
    /\ bulk' = IF e.op = "BULK_SET"
               THEN [items |-> e.items, keys |-> ItemKeys(e.items)]
               ELSE Overwritten(bulk, {e.key})
    /\ pc' = "down"
    /\ task' = "none"
    /\ Forget
    /\ debug' = FALSE
    /\ ret' = NoRet
    /\ UNCHANGED <<dataFile, indexFile, embFile, acked, found>>
    /\ closed' = NotClosed
    /\ UNCHANGED skipped
    /\ UNCHANGED notStore

\* KVStore.__init__ on restart: the indexes are loaded, then _load_snapshot and
\* the replay of _replay_wal; the save follows when there were entries.
Recover ==
    /\ pc = "down"
    /\ LET entries == wal_replay(walFile)
           st == replay_wal(Mem(load_snapshot(dataFile), idx_load(indexFile),
                                emb_load(embFile)), entries)
       IN /\ data' = st.data
          /\ index' = st.index
          /\ emb' = st.emb
          /\ pc' = IF entries = <<>> THEN "started" ELSE "replayed"
    /\ task' = "recover"
    /\ UNCHANGED <<dataFile, walFile, indexFile, embFile, cur, debug, ret, acked,
                   bulk, used, found>>
    /\ UNCHANGED <<skipped, closed>>
    /\ UNCHANGED notStore

\* Every item of the bulk_set followed is in Table d, its overwritten keys aside.
BulkApplied(b, d) == \A k \in b.keys : d[k] = LastItem(b.items, k)

\* KVStore.__init__: the snapshot thread starts and the store serves.
StartWorker ==
    /\ pc = "started"
    /\ pc' = "idle"
    /\ task' = "none"
    /\ acked' = IF EverKilled THEN data ELSE acked
    /\ bulk' = IF EverKilled /\ ~BulkApplied(bulk, data) THEN NoBulk ELSE bulk
    /\ cur' = NoEntry
    /\ UNCHANGED <<data, index, emb, dataFile, walFile, indexFile, embFile,
                   debug, ret, used, found>>
    /\ skipped' = IF EverKilled THEN {} ELSE skipped
    /\ closed' = NotClosed
    /\ UNCHANGED notStore

Calls ==
    {Entry("SET", k, v, <<>>, seq_of(t)) : k \in Keys, v \in Values, t \in Clock}
    \cup {Entry("DELETE", k, None, <<>>, seq_of(t)) : k \in Keys, t \in Clock}
    \cup {Entry("BULK_SET", None, None, items, seq_of(t)) :
            items \in BulkInputs, t \in Clock}

StoreNext ==
    \/ \E k \in Keys, v \in Values, dbg \in BOOLEAN, t \in Clock : SetCall(k, v, dbg, t)
    \/ \E k \in Keys, t \in Clock : DeleteCall(k, t)
    \/ \E items \in BulkInputs, dbg \in BOOLEAN, t \in Clock : BulkSetCall(items, dbg, t)
    \/ SaveSkip
    \/ SaveOpen
    \/ SaveWrite
    \/ Return
    \/ \E k \in Keys : Get(k)
    \/ \E q \in Queries, mode \in Modes : SearchText(q, mode)
    \/ \E stop \in BOOLEAN : SnapshotBegin(stop)
    \/ IndexSaveOpen
    \/ IndexSaveWrite
    \/ EmbSave
    \/ WalClear
    \/ Kill
    \/ \E e \in Calls : KillInAppend(e)
    \/ Recover
    \/ StartWorker

\* ------------------------------------------- startup on an earlier run

\* The earlier run made at most MaxRun mutating calls.
MaxRun == 2

\* The keys and values of its calls; the empty key is one of them.
RunKeys == {"", "k1"}

RunValues == {"a", "A b", ""}

Call(op, key, value, items) == [op |-> op, key |-> key, value |-> value, items |-> items]

RunCalls ==
    {Call("SET", k, v, <<>>) : k \in RunKeys, v \in RunValues}
    \cup {Call("DELETE", k, None, <<>>) : k \in RunKeys}
    \cup {Call("BULK_SET", None, None, <<<<"k1", "A b">>, <<"", "a">>>>)}

RunHistories == UNION {[1..n -> RunCalls] : n \in 0..MaxRun}

\* The store and its WAL after one call of the earlier run.
run_call(r, c) ==
    CASE c.op = "SET" ->
           [st |-> store_set(r.st, c.key, c.value),
            wal |-> wal_append(r.wal, "SET", c.key, c.value, 1)]
      [] c.op = "DELETE" ->
           IF delete_found(r.st.data, c.key)
           THEN [st |-> store_delete(r.st, c.key),
                 wal |-> wal_append(r.wal, "DELETE", c.key, None, 1)]
           ELSE r
      [] OTHER ->
           [st |-> store_bulk_set(r.st, c.items),
            wal |-> wal_append_bulk(r.wal, c.items, 1)]

RECURSIVE run_calls(_, _, _, _)
\* The store and its WAL after calls i.. of history h; a snapshot tick after
\* call number tick has cleared the WAL.
run_calls(r, h, i, tick) ==
    IF i > Len(h) THEN r
    ELSE LET after == run_call(r, h[i])
         IN run_calls(IF i = tick THEN [after EXCEPT !.wal = wal_clear(@)] ELSE after,
                      h, i + 1, tick)

NewRun == [st |-> Mem(EmptyTable, EmptyIndex, EmptyEmb), wal |-> <<>>]

\* The data directory an earlier run leaves: a tick after call `tick` (0: no
\* tick) saved the indexes and cleared the WAL; the last _save that ran was
\* that of call `saved` (later ones were skipped in debug mode, the last one
\* cut by the kill), and the kill left it whole or caught it between open and
\* dump; `torn`: the kill came inside a WAL write.
RunFiles(h, tick, saved, whole, torn) ==
    LET atTick == run_calls(NewRun, SubSeq(h, 1, tick), 1, 0).st
        atSave == run_calls(NewRun, SubSeq(h, 1, saved), 1, 0).st
        log == run_calls(NewRun, h, 1, tick).wal
    IN [dataFile |-> IF saved = 0 THEN File("missing", EmptyTable)
                     ELSE IF whole THEN File("ok", atSave.data)
                     ELSE Truncated(EmptyTable),
        indexFile |-> IF tick = 0 THEN File("missing", EmptyIndex)
                      ELSE File("ok", atTick.index),
        embFile |-> IF tick = 0 THEN File("missing", EmptyEmb)
                    ELSE emb_save(File("missing", EmptyEmb), atTick.emb),
        walFile |-> IF torn THEN wal_torn(log) ELSE log]

\* The process is down on the files of an earlier run.
RunInit ==
    /\ \E h \in RunHistories : \E saved \in 0..Len(h) : \E tick \in 0..saved :
       \E whole, torn \in BOOLEAN :
          LET f == RunFiles(h, tick, saved, whole, torn)
          IN /\ dataFile = f.dataFile
             /\ indexFile = f.indexFile
             /\ embFile = f.embFile
             /\ walFile = f.walFile
    /\ data = EmptyTable
    /\ index = EmptyIndex
    /\ emb = EmptyEmb
    /\ pc = "down"
    /\ acked = EmptyTable
    /\ closed = NotClosed
    /\ task = "none"
    /\ cur = NoEntry
    /\ debug = FALSE
    /\ found = FALSE
    /\ ret = NoRet
    /\ bulk = NoBulk
    /\ used = [calls |-> 0, snaps |-> 0, kills |-> 1]
    /\ skipped = {}

\* KVStore.__init__ on those files, to the start of the snapshot thread.
StartupNext ==
    \/ Recover
    \/ SaveOpen
    \/ SaveWrite
    \/ IndexSaveOpen
    \/ IndexSaveWrite
    \/ StartWorker

\* ------------------------------------------------------- leader election

\* The cluster topology of run_cluster.py, in the order of all_nodes.
all_nodes == <<1, 2, 3>>

Nodes == {all_nodes[i] : i \in 1..Len(all_nodes)}

\* self.leader_id = None
NoLeader == 0

\* Peers are all nodes except self.
peers(n) == SelectSeq(all_nodes, LAMBDA m : m # n)

\* start_election: the nodes with higher ids, in the order of the peers.
higher_nodes(n) == SelectSeq(peers(n), LAMBDA m : m > n)

\* A thread inside start_election at node n: the main thread (the initial
\* election of ClusterNode.start), the monitor thread ("mon") or a thread that
\* receive_election spawned ("bg"). It is at the entry check, at the POST to
\* higher_nodes[i] ("poll"), at the clearing of the flag after an answer
\* ("clear"), at the entry of _become_leader ("become") or at the POST to
\* peers[i] ("announce").
Thread(n, kind, at, i) == [node |-> n, kind |-> kind, at |-> at, i |-> i]

Spawn(bag, t) == bag (+) SetToBag({t})

Exit(bag, t) == bag (-) SetToBag({t})

Move(bag, t, at, i) == Spawn(Exit(bag, t), [t EXCEPT !.at = at, !.i = i])

Running == BagToSet(threads)

\* The thread returns from start_election; the main thread goes on to app.run.
Finish(t) ==
    /\ threads' = Exit(threads, t)
    /\ serving' = IF t.kind = "main" THEN [serving EXCEPT ![t.node] = TRUE] ELSE serving

\* receive_election at node p: a thread is spawned unless an election is in progress.
receive_election(bag, p) ==
    IF election_in_progress[p] THEN bag ELSE Spawn(bag, Thread(p, "bg", "check", 0))

\* A receive_coordinator that leaves is_leader as it is.
receive_coordinator_id_only(p, l) ==
    /\ leader_id' = [leader_id EXCEPT ![p] = l]
    /\ UNCHANGED is_leader
    /\ election_in_progress' = [election_in_progress EXCEPT ![p] = FALSE]

\* receive_coordinator at node p of the announcement of node l.
receive_coordinator(p, l) ==
    /\ leader_id' = [leader_id EXCEPT ![p] = l]
    /\ is_leader' = [is_leader EXCEPT ![p] = (l = p)]
    /\ election_in_progress' = [election_in_progress EXCEPT ![p] = FALSE]

\* LeaderElection.__init__ on every node; no process has started.
ElectionInit ==
    /\ leader_id = [n \in Nodes |-> NoLeader]
    /\ is_leader = [n \in Nodes |-> FALSE]
    /\ election_in_progress = [n \in Nodes |-> FALSE]
    /\ started = [n \in Nodes |-> FALSE]
    /\ serving = [n \in Nodes |-> FALSE]
    /\ threads = EmptyBag
    /\ refused = FALSE
    /\ dropped = FALSE
    /\ timeouts = 0

\* The thread past the check of start_election: at the first higher node, or in
\* _become_leader when there is none.
Enter(bag, t) ==
    IF higher_nodes(t.node) = <<>>
    THEN Spawn(bag, [t EXCEPT !.at = "become"])
    ELSE Spawn(bag, [t EXCEPT !.at = "poll", !.i = 1])

\* ClusterNode.start: election.start() starts the monitor, which sleeps first,
\* and runs the initial election in the main thread, before app.run: the flag
\* is as constructed and the election is entered.
StartNode(n) ==
    /\ ~started[n]
    /\ started' = [started EXCEPT ![n] = TRUE]
    /\ election_in_progress' = [election_in_progress EXCEPT ![n] = TRUE]
    /\ threads' = Enter(threads, Thread(n, "main", "check", 0))
    /\ UNCHANGED <<leader_id, is_leader, serving, refused, dropped, timeouts>>
    /\ UNCHANGED notElection

\* _monitor_loop of a node that is not the leader: no heartbeat for more than
\* _heartbeat_timeout, it calls start_election. (Until app.run the initial
\* election holds the flag or has made the node leader: a timeout starts nothing.)
LeaderTimeout(n) ==
    /\ serving[n]
    /\ ~is_leader[n]
    /\ timeouts < MaxTimeouts
    /\ \A t \in Running : ~(t.node = n /\ t.kind = "mon")
    /\ timeouts' = timeouts + 1
    /\ threads' = Spawn(threads, Thread(n, "mon", "check", 0))
    /\ UNCHANGED <<leader_id, is_leader, election_in_progress, started, serving,
                   refused, dropped>>
    /\ UNCHANGED notElection

\* start_election: the check of _election_in_progress under the lock.
ElectionCheck(t) ==
    /\ t \in Running
    /\ t.at = "check"
    /\ IF election_in_progress[t.node]
       THEN /\ threads' = Exit(threads, t)
            /\ UNCHANGED election_in_progress
       ELSE /\ election_in_progress' = [election_in_progress EXCEPT ![t.node] = TRUE]
            /\ threads' = Enter(Exit(threads, t), t)
    /\ UNCHANGED <<leader_id, is_leader, started, serving, refused, dropped, timeouts>>
    /\ UNCHANGED notElection

\* The thread after the POST to higher_nodes[t.i] raised: the next higher node,
\* or _become_leader when there is none left.
NextPoll(bag, t) ==
    IF t.i < Len(higher_nodes(t.node))
    THEN Move(bag, t, "poll", t.i + 1)
    ELSE Move(bag, t, "become", 0)

\* start_election: the POST /election is answered with 200.
PollAnswered(t) ==
    /\ t \in Running
    /\ t.at = "poll"
    /\ LET p == higher_nodes(t.node)[t.i]
       IN /\ serving[p]
          /\ threads' = Move(receive_election(threads, p), t, "clear", 0)
    /\ UNCHANGED <<leader_id, is_leader, election_in_progress, started, serving,
                   refused, dropped, timeouts>>
    /\ UNCHANGED notElection

\* start_election: the POST /election meets a node that does not listen yet.
PollRefused(t) ==
    /\ t \in Running
    /\ t.at = "poll"
    /\ ~serving[higher_nodes(t.node)[t.i]]
    /\ threads' = NextPoll(threads, t)
    /\ refused' = TRUE
    /\ UNCHANGED <<leader_id, is_leader, election_in_progress, started, serving,
                   dropped, timeouts>>
    /\ UNCHANGED notElection

\* start_election: the POST /election times out; the request was lost, or the
\* handler ran (ran = TRUE) and its answer was lost.
PollLost(t, ran) ==
    /\ t \in Running
    /\ t.at = "poll"
    /\ LET p == higher_nodes(t.node)[t.i]
       IN /\ serving[p]
          /\ threads' = NextPoll(IF ran THEN receive_election(threads, p) ELSE threads, t)
    /\ dropped' = TRUE
    /\ UNCHANGED <<leader_id, is_leader, election_in_progress, started, serving,
                   refused, timeouts>>
    /\ UNCHANGED notElection

\* start_election after an answer: the flag is cleared, the thread returns.
ElectionClear(t) ==
    /\ t \in Running
    /\ t.at = "clear"
    /\ election_in_progress' = [election_in_progress EXCEPT ![t.node] = FALSE]
    /\ Finish(t)
    /\ UNCHANGED <<leader_id, is_leader, started, refused, dropped, timeouts>>
    /\ UNCHANGED notElection

\* _become_leader: the assignments under the lock.
BecomeLeader(t) ==
    /\ t \in Running
    /\ t.at = "become"
    /\ is_leader' = [is_leader EXCEPT ![t.node] = TRUE]
    /\ leader_id' = [leader_id EXCEPT ![t.node] = t.node]
    /\ election_in_progress' = [election_in_progress EXCEPT ![t.node] = FALSE]
    /\ threads' = Move(threads, t, "announce", 1)
    /\ UNCHANGED <<started, serving, refused, dropped, timeouts>>
    /\ UNCHANGED notElection

\* The thread after the POST to peers[t.i]: the next peer, or the return.
NextAnnounce(t) ==
    IF t.i < Len(peers(t.node))
    THEN threads' = Move(threads, t, "announce", t.i + 1) /\ UNCHANGED serving
    ELSE Finish(t)

\* _become_leader: the POST /coordinator reaches peers[t.i].
AnnounceDelivered(t) ==
    /\ t \in Running
    /\ t.at = "announce"
    /\ serving[peers(t.node)[t.i]]
    /\ receive_coordinator(peers(t.node)[t.i], t.node)
    /\ NextAnnounce(t)
    /\ UNCHANGED <<started, refused, dropped, timeouts>>
    /\ UNCHANGED notElection

\* _become_leader: the POST /coordinator meets a node that does not listen yet.
AnnounceRefused(t) ==
    /\ t \in Running
    /\ t.at = "announce"
    /\ ~serving[peers(t.node)[t.i]]
    /\ NextAnnounce(t)
    /\ refused' = TRUE
    /\ UNCHANGED <<leader_id, is_leader, election_in_progress, started, dropped,
                   timeouts>>
    /\ UNCHANGED notElection

\* _become_leader: the POST /coordinator is lost or times out.
AnnounceLost(t) ==
    /\ t \in Running
    /\ t.at = "announce"
    /\ serving[peers(t.node)[t.i]]
    /\ NextAnnounce(t)
    /\ dropped' = TRUE
    /\ UNCHANGED <<leader_id, is_leader, election_in_progress, started, refused,
                   timeouts>>
    /\ UNCHANGED notElection

ElectionNext ==
    \/ \E n \in Nodes : StartNode(n)
    \/ \E n \in Nodes : LeaderTimeout(n)
    \/ \E t \in Running : ElectionCheck(t)
    \/ \E t \in Running : PollAnswered(t)
    \/ \E t \in Running : PollRefused(t)
    \/ \E t \in Running, ran \in BOOLEAN : PollLost(t, ran)
    \/ \E t \in Running : ElectionClear(t)
    \/ \E t \in Running : BecomeLeader(t)
    \/ \E t \in Running : AnnounceDelivered(t)
    \/ \E t \in Running : AnnounceRefused(t)
    \/ \E t \in Running : AnnounceLost(t)

\* ----------------------------------------------------- leader failover

\* A node whose process runs and listens.
Alive == {n \in Nodes : serving[n]}

\* Node n accepts the heartbeats of a live leader: receive_heartbeat takes those
\* of leader_id only, and only a node with is_leader set sends any.
HasHeartbeat(n) ==
    /\ leader_id[n] # NoLeader
    /\ serving[leader_id[n]]
    /\ is_leader[leader_id[n]]

\* The threads of the bag that do not run at node n.
Elsewhere(bag, n) ==
    [t \in {u \in BagToSet(bag) : u.node # n} |-> bag[t]]

\* The process of a node that holds itself leader is killed.
Crash(n) ==
    /\ \A m \in Nodes : serving[m]
    /\ is_leader[n]
    /\ serving' = [serving EXCEPT ![n] = FALSE]
    /\ threads' = Elsewhere(threads, n)
    /\ is_leader' = [is_leader EXCEPT ![n] = FALSE]
    /\ leader_id' = [leader_id EXCEPT ![n] = NoLeader]
    /\ election_in_progress' = [election_in_progress EXCEPT ![n] = FALSE]
    /\ UNCHANGED <<started, refused, dropped, timeouts>>
    /\ UNCHANGED notElection

\* _monitor_loop of a follower that gets no heartbeat it accepts: after
\* _heartbeat_timeout it calls start_election.
FollowerTimeout(n) ==
    /\ serving[n]
    /\ ~is_leader[n]
    /\ ~HasHeartbeat(n)
    /\ \A t \in Running : ~(t.node = n /\ t.kind = "mon")
    /\ BagCardinality(threads) < MaxThreads
    /\ threads' = Spawn(threads, Thread(n, "mon", "check", 0))
    /\ UNCHANGED <<leader_id, is_leader, election_in_progress, started, serving,
                   refused, dropped, timeouts>>
    /\ UNCHANGED notElection

\* A step of thread t inside start_election, with every message delivered or
\* refused.
ThreadStep(t) ==
    \/ ElectionCheck(t)
    \/ PollAnswered(t)
    \/ PollRefused(t)
    \/ ElectionClear(t)
    \/ BecomeLeader(t)
    \/ AnnounceDelivered(t)
    \/ AnnounceRefused(t)

FailoverNext ==
    \/ \E n \in Nodes : Crash(n)
    \/ \E n \in Nodes : FollowerTimeout(n)
    \/ \E t \in Running : ThreadStep(t)

\* The threads there can be after the startup.
ThreadSpace ==
    {Thread(n, kind, at, i) :
        n \in Nodes, kind \in {"mon", "bg"},
        at \in {"check", "poll", "clear", "become", "announce"}, i \in 0..2}

\* ------------------------------------------------- concurrent store calls

\* Two request threads that call bulk_set on the same keys, one that calls get.
Writers == {1, 2}

Reader == 3

Callers == Writers \cup {Reader}

\* The lock is free.
NoThread == 0

\* The items of the bulk_set of writer w: the shared keys, with w's values.
WriterItems(w) ==
    IF w = 1 THEN <<<<"k1", "a">>, <<"k2", "a">>>>
             ELSE <<<<"k1", "A b">>, <<"k2", "A b">>>>

\* A lock that excludes no thread.
lock_open(l) == TRUE

\* threading.RLock: the acquire of a thread that does not hold the lock goes
\* through when no thread holds it.
lock_free(l) == l = NoThread

ThreadsInit ==
    /\ lock = NoThread
    /\ tpc = [t \in Callers |-> "start"]
    /\ tdone = [t \in Callers |-> 0]

\* What a request thread leaves alone in the store and outside it.
ThreadFrame ==
    UNCHANGED <<indexFile, embFile, pc, task, cur, debug, found, acked, bulk, used,
                skipped, closed, electionVars, masterVars, clusterVars, beatVars>>

\* `with self._lock:` of bulk_set and of get.
Acquire(t) ==
    /\ tpc[t] = "start"
    /\ lock_free(lock)
    /\ lock' = t
    /\ tpc' = [tpc EXCEPT ![t] = "locked"]
    /\ UNCHANGED <<tdone, data, index, emb, dataFile, walFile, ret>>
    /\ ThreadFrame

\* KVStore.bulk_set, step 1: the WAL record.
BulkAppend(w, t) ==
    /\ w \in Writers
    /\ tpc[w] = "locked"
    /\ walFile' = wal_append_bulk(walFile, WriterItems(w), t)
    /\ tpc' = [tpc EXCEPT ![w] = "apply"]
    /\ UNCHANGED <<lock, tdone, data, index, emb, dataFile, ret>>
    /\ ThreadFrame

\* KVStore.bulk_set, step 2: one turn of the loop over the items.
BulkApply(w) ==
    /\ w \in Writers
    /\ tpc[w] = "apply"
    /\ LET item == WriterItems(w)[tdone[w] + 1]
           st == store_set(Mem(data, index, emb), item[1], item[2])
       IN /\ data' = st.data
          /\ index' = st.index
          /\ emb' = st.emb
    /\ tdone' = [tdone EXCEPT ![w] = @ + 1]
    /\ tpc' = [tpc EXCEPT ![w] = IF tdone[w] + 1 = Len(WriterItems(w))
                                 THEN "save" ELSE "apply"]
    /\ UNCHANGED <<lock, dataFile, walFile, ret>>
    /\ ThreadFrame

\* KVStore.bulk_set, step 3: _save.
BulkSave(w) ==
    /\ w \in Writers
    /\ tpc[w] = "save"
    /\ dataFile' = File("ok", data)
    /\ tpc' = [tpc EXCEPT ![w] = "unlock"]
    /\ UNCHANGED <<lock, tdone, data, index, emb, walFile, ret>>
    /\ ThreadFrame

\* KVStore.get inside the lock.
GetRead(key) ==
    /\ tpc[Reader] = "locked"
    /\ LET r == store_get(data, key)
       IN ret' = Response("GET", key, r.success, 0, r.value, {}, Observed)
    /\ tdone' = [tdone EXCEPT ![Reader] = @ + 1]
    /\ tpc' = [tpc EXCEPT ![Reader] = "unlock"]
    /\ UNCHANGED <<lock, data, index, emb, dataFile, walFile>>
    /\ ThreadFrame

\* The end of the `with` block: the call returns; the reader calls again.
Release(t) ==
    /\ tpc[t] = "unlock"
    /\ lock' = NoThread
    /\ tpc' = [tpc EXCEPT ![t] = IF t = Reader /\ tdone[t] < MaxGets
                                 THEN "start" ELSE "done"]
    /\ UNCHANGED <<tdone, data, index, emb, dataFile, walFile, ret>>
    /\ ThreadFrame

ThreadsNext ==
    \/ \E t \in Callers : Acquire(t)
    \/ \E w \in Writers, t \in Clock : BulkAppend(w, t)
    \/ \E w \in Writers : BulkApply(w)
    \/ \E w \in Writers : BulkSave(w)
    \/ \E k \in Keys : GetRead(k)
    \/ \E t \in Callers : Release(t)

\* ------------------------------------------------- the snapshot worker

\* The background thread of _snapshot_loop, beside the request threads.
Ticker == 4

Workers == Callers \cup {Ticker}

\* _snapshot_loop wakes MaxTicks times.
MaxTicks == 2

SnapshotInit ==
    /\ lock = NoThread
    /\ tpc = [t \in Workers |-> "start"]
    /\ tdone = [t \in Workers |-> 0]

\* What the snapshot worker leaves alone: the Table and everything outside
\* the store.
TickFrame ==
    UNCHANGED <<data, index, emb, pc, task, cur, debug, found, ret, acked, bulk,
                used, skipped, closed, electionVars, masterVars, clusterVars,
                beatVars>>

\* _create_snapshot: self._save(False)
TickSave ==
    /\ tpc[Ticker] = "locked"
    /\ dataFile' = File("ok", data)
    /\ tpc' = [tpc EXCEPT ![Ticker] = "isave"]
    /\ UNCHANGED <<lock, tdone, walFile, indexFile, embFile>>
    /\ TickFrame

\* _create_snapshot: self.inverted_index.save()
TickIndexSave ==
    /\ tpc[Ticker] = "isave"
    /\ indexFile' = File("ok", index)
    /\ tpc' = [tpc EXCEPT ![Ticker] = "esave"]
    /\ UNCHANGED <<lock, tdone, walFile, dataFile, embFile>>
    /\ TickFrame

\* _create_snapshot: self.embedding_index.save()
TickEmbSave ==
    /\ tpc[Ticker] = "esave"
    /\ embFile' = emb_save(embFile, emb)
    /\ tpc' = [tpc EXCEPT ![Ticker] = "clear"]
    /\ UNCHANGED <<lock, tdone, walFile, dataFile, indexFile>>
    /\ TickFrame

\* _create_snapshot: self.wal.clear()
TickClear ==
    /\ tpc[Ticker] = "clear"
    /\ walFile' = wal_clear(walFile)
    /\ tpc' = [tpc EXCEPT ![Ticker] = "unlock"]
    /\ UNCHANGED <<lock, tdone, dataFile, indexFile, embFile>>
    /\ TickFrame

\* The end of the `with` block of _create_snapshot; the loop sleeps again.
TickRelease ==
    /\ tpc[Ticker] = "unlock"
    /\ lock' = NoThread
    /\ tdone' = [tdone EXCEPT ![Ticker] = @ + 1]
    /\ tpc' = [tpc EXCEPT ![Ticker] = IF tdone[Ticker] + 1 < MaxTicks
                                      THEN "start" ELSE "done"]
    /\ UNCHANGED <<walFile, dataFile, indexFile, embFile>>
    /\ TickFrame

SnapshotNext ==
    \/ ThreadsNext
    \/ Acquire(Ticker)
    \/ TickSave
    \/ TickIndexSave
    \/ TickEmbSave
    \/ TickClear
    \/ TickRelease

\* ------------------------------------------------------ masterless nodes

MNodes == {1, 2, 3}

mpeers(n) == MNodes \ {n}

\* The values the clients write.
MValues == {"a", "A b"}

\* A vector clock is a dict in insertion order; a key is a node id held as an
\* int (the node's own entry) or as a str (an entry that came in a JSON body).
CKey(id, str) == [id |-> id, str |-> str]

CItem(key, ts) == [key |-> key, ts |-> ts]

\* `key in clock`.
clk_has(c, key) == \E i \in 1..Len(c) : c[i].key = key

\* clock[key].
clk_get(c, key) == (CHOOSE i \in 1..Len(c) : c[i].key = key)

\* clock[key] = ts: an old key keeps its place, a new one goes last.
clk_put(c, key, ts) ==
    IF clk_has(c, key)
    THEN [i \in 1..Len(c) |-> IF c[i].key = key THEN CItem(key, ts) ELSE c[i]]
    ELSE Append(c, CItem(key, ts))

\* max(clock.values()) if clock else 0.
clk_max(c) ==
    IF c = <<>> THEN 0
    ELSE CHOOSE m \in {c[i].ts : i \in 1..Len(c)} :
             \A i \in 1..Len(c) : c[i].ts <= m

\* json.loads of the json.dumps of a clock: every key becomes a str, and of two
\* members with one name the later value stands at the place of the first.
RECURSIVE json_loads(_, _)
json_loads(c, acc) ==
    IF c = <<>> THEN acc
    ELSE json_loads(Tail(c), clk_put(acc, CKey(c[1].key.id, TRUE), c[1].ts))

json_clock(c) == json_loads(c, <<>>)

\* The state of vector_clocks for the key: absent, or a clock.
NoClock == [known |-> FALSE, c |-> <<>>]

Known(c) == [known |-> TRUE, c |-> c]

\* MasterlessNode._update_clock.
update_clock(vc, n, ts) == Known(clk_put(vc.c, CKey(n, FALSE), ts))

\* The loop of _merge_clock over the items of the remote clock.
RECURSIVE merge_items(_, _)
merge_items(local, remote) ==
    IF remote = <<>> THEN local
    ELSE merge_items(
             IF \/ ~clk_has(local, remote[1].key)
                \/ remote[1].ts > local[clk_get(local, remote[1].key)].ts
             THEN clk_put(local, remote[1].key, remote[1].ts)
             ELSE local,
             Tail(remote))

\* A _merge_clock that lets no remote write win.
merge_clock_never(vc, remote) == [apply |-> FALSE, vc |-> Known(vc.c)]

\* MasterlessNode._merge_clock: whether the remote write wins, and the clock left.
merge_clock(vc, remote) ==
    IF ~vc.known THEN [apply |-> TRUE, vc |-> Known(<<>>)]
    ELSE IF clk_max(remote) > clk_max(vc.c)
         THEN [apply |-> TRUE, vc |-> Known(merge_items(vc.c, remote))]
         ELSE [apply |-> FALSE, vc |-> vc]

\* A client write between its two steps, and none.
LocalWrite(op, value, success) ==
    [on |-> TRUE, op |-> op, value |-> value, success |-> success]

NoLocal == [on |-> FALSE, op |-> "SET", value |-> None, success |-> FALSE]

\* The payload of _replicate.
Payload(n, op, value, ts, clock) ==
    [origin |-> n, op |-> op, value |-> value, ts |-> ts, clock |-> clock]

MasterInit ==
    /\ mtable = [n \in MNodes |-> None]
    /\ mclock = [n \in MNodes |-> NoClock]
    /\ mlocal = [n \in MNodes |-> NoLocal]
    /\ wr = <<>>
    /\ flight = {}
    /\ mapply = {}
    /\ delivered = {}
    /\ mlost = FALSE
    /\ mnow = 0
    /\ issued = 0

\* The routes set_key and delete_key, first statement: the local store; the
\* clients make at most `most` writes.
LocalStoreOf(n, op, value, most) ==
    /\ ~mlocal[n].on
    /\ issued < most
    /\ issued' = issued + 1
    /\ mtable' = [mtable EXCEPT ![n] = IF op = "SET" THEN value ELSE None]
    /\ mlocal' = [mlocal EXCEPT ![n] =
                     LocalWrite(op, IF op = "SET" THEN value ELSE None,
                                op = "SET" \/ mtable[n] # None)]
    /\ UNCHANGED <<mclock, wr, flight, mapply, delivered, mlost, mnow>>
    /\ UNCHANGED notMaster

\* The routes set_key and delete_key, the rest: _update_clock, and _replicate
\* when the store succeeded.
LocalClock(n) ==
    /\ mlocal[n].on
    /\ mnow' = mnow + 1
    /\ mclock' = [mclock EXCEPT ![n] = update_clock(@, n, mnow')]
    /\ IF mlocal[n].success
       THEN /\ wr' = Append(wr, Payload(n, mlocal[n].op, mlocal[n].value, mnow',
                                        json_clock(mclock'[n].c)))
            /\ flight' = flight \cup {<<Len(wr) + 1, p>> : p \in mpeers(n)}
       ELSE UNCHANGED <<wr, flight>>
    /\ mlocal' = [mlocal EXCEPT ![n] = NoLocal]
    /\ UNCHANGED <<mtable, mapply, delivered, mlost, issued>>
    /\ UNCHANGED notMaster

\* The route replicate, first statement: _merge_clock.
ReplicateMerge(w, n) ==
    /\ <<w, n>> \in flight
    /\ flight' = flight \ {<<w, n>>}
    /\ LET r == merge_clock(mclock[n], wr[w].clock)
       IN /\ mclock' = [mclock EXCEPT ![n] = r.vc]
          /\ IF r.apply
             THEN mapply' = mapply \cup {<<w, n>>} /\ UNCHANGED delivered
             ELSE delivered' = delivered \cup {<<w, n>>} /\ UNCHANGED mapply
    /\ UNCHANGED <<mtable, mlocal, wr, mlost, mnow, issued>>
    /\ UNCHANGED notMaster

\* The route replicate, the rest: the local store.
ReplicateApply(w, n) ==
    /\ <<w, n>> \in mapply
    /\ mapply' = mapply \ {<<w, n>>}
    /\ delivered' = delivered \cup {<<w, n>>}
    /\ mtable' = [mtable EXCEPT ![n] = IF wr[w].op = "SET" THEN wr[w].value ELSE None]
    /\ UNCHANGED <<mclock, mlocal, wr, flight, mlost, mnow, issued>>
    /\ UNCHANGED notMaster

\* send_to_peer: the post raises and the exception is passed over.
ReplicateLost(w, n) ==
    /\ <<w, n>> \in flight
    /\ flight' = flight \ {<<w, n>>}
    /\ mlost' = TRUE
    /\ UNCHANGED <<mtable, mclock, mlocal, wr, mapply, delivered, mnow, issued>>
    /\ UNCHANGED notMaster

LocalStore(n, op, value) == LocalStoreOf(n, op, value, MaxWrites)

MasterNext ==
    \/ \E n \in MNodes, v \in MValues : LocalStore(n, "SET", v)
    \/ \E n \in MNodes : LocalStore(n, "DELETE", None)
    \/ \E n \in MNodes : LocalClock(n)
    \/ \E w \in 1..MaxWrites, n \in MNodes : ReplicateMerge(w, n)
    \/ \E w \in 1..MaxWrites, n \in MNodes : ReplicateApply(w, n)
    \/ \E w \in 1..MaxWrites, n \in MNodes : ReplicateLost(w, n)

\* The clients of the longer run make MaxSets writes, each a set of one value,
\* and no replicate post is lost.
MaxSets == 3

SetsNext ==
    \/ \E n \in MNodes : LocalStoreOf(n, "SET", "a", MaxSets)
    \/ \E n \in MNodes : LocalClock(n)
    \/ \E w \in 1..MaxSets, n \in MNodes : ReplicateMerge(w, n)
    \/ \E w \in 1..MaxSets, n \in MNodes : ReplicateApply(w, n)

\* ------------------------------------------------- cluster client routes

\* The keys of the clients of the cluster, and their characters.
ClusterKeys == {"k1", "k1?x"}

KeyChars(k) ==
    CASE k = "k1" -> <<"k", "1">>
      [] k = "k1?x" -> <<"k", "1", "?", "x">>
      [] OTHER -> <<>>

ClusterEmpty == [k \in ClusterKeys |-> None]

\* The path of the URL f"{leader_url}/get/{key}" as the HTTP client sends it: the
\* text up to the first "?" or "#".
RECURSIVE url_path(_)
url_path(cs) ==
    IF cs = <<>> \/ Head(cs) \in {"?", "#"} THEN <<>>
    ELSE <<Head(cs)>> \o url_path(Tail(cs))

\* The <key> the route of the peer gets from that path.
route_key(key) == CHOOSE k \in ClusterKeys : KeyChars(k) = url_path(KeyChars(key))

\* A client request.
Req(op, key, value, items) == [op |-> op, key |-> key, value |-> value, items |-> items]

ClusterRequests ==
    {Req("SET", k, "a", <<>>) : k \in ClusterKeys}
        \cup {Req("DELETE", k, None, <<>>) : k \in ClusterKeys}
        \cup {Req("GET", k, None, <<>>) : k \in ClusterKeys}
        \cup {Req("BULK_SET", None, None, it) : it \in {<<>>, <<<<"k1", "a">>>>}}

\* The request the peer receives: set and bulk_set post the JSON body, get and
\* delete put the key into the URL.
forwarded(req) ==
    IF req.op \in {"GET", "DELETE"}
    THEN Req(req.op, route_key(req.key), req.value, req.items)
    ELSE req

\* A response: the status code and the JSON body.
Resp(status, success, value, error) ==
    [status |-> status, success |-> success, value |-> value, error |-> error]

NoResp == Resp(0, FALSE, None, None)

\* jsonify(resp.json()), resp.status_code
relay(resp) == Resp(resp.status, resp.success, resp.value, resp.error)

\* `if not self.election.is_leader:` sends a route to the forwarding branch.
handles_locally(leader) == leader

\* LeaderElection.get_leader_url, as the id of the peer (NoLeader: None).
get_leader_url(n) ==
    IF is_leader[n] THEN NoLeader
    ELSE IF \E i \in 1..Len(peers(n)) : peers(n)[i] = leader_id[n]
         THEN leader_id[n] ELSE NoLeader

\* The store call of a route on Table t: the Table left and the response.
route_store(t, req) ==
    CASE req.op = "SET" ->
           [table |-> store_set(Mem(t, EmptyIndex, EmptyEmb), req.key, req.value).data,
            resp |-> Resp(200, TRUE, None, None)]
      [] req.op = "BULK_SET" ->
           [table |-> store_bulk_set(Mem(t, EmptyIndex, EmptyEmb), req.items).data,
            resp |-> Resp(200, TRUE, None, None)]
      [] req.op = "DELETE" ->
           [table |-> store_delete(Mem(t, EmptyIndex, EmptyEmb), req.key).data,
            resp |-> IF delete_found(t, req.key)
                     THEN Resp(200, TRUE, None, None)
                     ELSE Resp(404, FALSE, None, "Key not found")]
      [] req.op = "GET" ->
           [table |-> t,
            resp |-> IF store_get(t, req.key).success
                     THEN Resp(200, TRUE, store_get(t, req.key).value, None)
                     ELSE Resp(404, FALSE, None, None)]

\* The routes replicate when the store call succeeded.
replicates(req, resp) == req.op # "GET" /\ resp.success

\* The payload of _replicate_to_secondaries: items go in `if items`.
replicate_payload(req) ==
    [op |-> req.op, key |-> req.key, value |-> req.value,
     has_items |-> req.items # <<>>, items |-> req.items]

\* The replicate route of a peer on its Table: data['items'] of a payload without
\* items raises, and the Table stays.
replicate_apply(t, pl) ==
    CASE pl.op = "SET" -> store_set(Mem(t, EmptyIndex, EmptyEmb), pl.key, pl.value).data
      [] pl.op = "DELETE" -> store_delete(Mem(t, EmptyIndex, EmptyEmb), pl.key).data
      [] pl.op = "BULK_SET" ->
           IF pl.has_items
           THEN store_bulk_set(Mem(t, EmptyIndex, EmptyEmb), pl.items).data
           ELSE t
      [] OTHER -> t

\* What a post to a peer can come to: handled and answered, refused, or handled
\* after the sender gave up waiting.
Outcomes == {"ok", "down", "timeout"}

\* A handler of the request at node n.
Frame(n, req) ==
    [node |-> n, req |-> req, saw |-> FALSE, pc |-> "check", idx |-> 1,
     target |-> NoLeader, resp |-> NoResp, got |-> NoResp, path |-> "new"]

Top == chain[Len(chain)]

SetTop(f) == [chain EXCEPT ![Len(chain)] = f]

\* The states of is_leader and leader_id the nodes can be left in by the startup
\* elections, with no message lost and no timeout.
ElectionConfigs ==
    { [lead |-> <<FALSE, FALSE, TRUE>>, follow |-> <<3, 3, 3>>],
      [lead |-> <<FALSE, FALSE, TRUE>>, follow |-> <<0, 3, 3>>],
      [lead |-> <<TRUE, FALSE, FALSE>>, follow |-> <<1, 3, 1>>],
      [lead |-> <<FALSE, FALSE, FALSE>>, follow |-> <<2, 3, 2>>],
      [lead |-> <<TRUE, TRUE, FALSE>>, follow |-> <<1, 2, 1>>] }

ClusterVarsInit ==
    /\ ctable = [n \in Nodes |-> ClusterEmpty]
    /\ chain = <<>>
    /\ cresp = NoResp
    /\ sent = <<>>
    /\ capplied = {}
    /\ ctable0 = [n \in Nodes |-> ClusterEmpty]
    /\ creqs = 0
    /\ cchanges = 0

\* A client sends a request to node n.
ClientRequest(n, req) ==
    /\ chain = <<>>
    /\ creqs < MaxRequests
    /\ creqs' = creqs + 1
    /\ chain' = <<Frame(n, req)>>
    /\ cresp' = NoResp
    /\ sent' = <<>>
    /\ capplied' = {}
    /\ ctable0' = ctable
    /\ UNCHANGED <<ctable, cchanges, is_leader, leader_id>>
    /\ UNCHANGED notCluster

\* `if not self.election.is_leader:`
RouteCheck ==
    /\ chain # <<>>
    /\ Top.pc = "check"
    /\ chain' = SetTop([Top EXCEPT
                   !.saw = is_leader[Top.node],
                   !.pc = IF handles_locally(is_leader[Top.node]) THEN "apply" ELSE "lookup"])
    /\ UNCHANGED <<ctable, cresp, sent, capplied, ctable0, creqs, cchanges,
                   is_leader, leader_id>>
    /\ UNCHANGED notCluster

\* `leader_url = self.election.get_leader_url()`, and the 503 when it is None.
RouteLookup ==
    /\ chain # <<>>
    /\ Top.pc = "lookup"
    /\ LET url == get_leader_url(Top.node)
       IN chain' = SetTop(
              IF url # NoLeader
              THEN [Top EXCEPT !.pc = "forward", !.target = url]
              ELSE [Top EXCEPT !.pc = "return", !.path = "noleader",
                               !.resp = Resp(503, FALSE, None, "No leader")])
    /\ UNCHANGED <<ctable, cresp, sent, capplied, ctable0, creqs, cchanges,
                   is_leader, leader_id>>
    /\ UNCHANGED notCluster

\* The request to the leader's URL reaches the peer, whose route starts.
RouteForward ==
    /\ chain # <<>>
    /\ Top.pc = "forward"
    /\ Len(chain) < MaxHops
    /\ chain' = Append(SetTop([Top EXCEPT !.pc = "wait"]),
                       Frame(Top.target, forwarded(Top.req)))
    /\ UNCHANGED <<ctable, cresp, sent, capplied, ctable0, creqs, cchanges,
                   is_leader, leader_id>>
    /\ UNCHANGED notCluster

\* The request to the leader's URL raises RequestException.
RouteUnavailable ==
    /\ chain # <<>>
    /\ Top.pc = "forward"
    /\ chain' = SetTop([Top EXCEPT !.pc = "return", !.path = "unavailable",
                            !.resp = Resp(503, FALSE, None, "Leader unavailable")])
    /\ UNCHANGED <<ctable, cresp, sent, capplied, ctable0, creqs, cchanges,
                   is_leader, leader_id>>
    /\ UNCHANGED notCluster

\* The leader's branch: the call of the store.
RouteApply ==
    /\ chain # <<>>
    /\ Top.pc = "apply"
    /\ LET r == route_store(ctable[Top.node], Top.req)
       IN /\ ctable' = [ctable EXCEPT ![Top.node] = r.table]
          /\ chain' = SetTop([Top EXCEPT
                         !.resp = r.resp, !.path = "local",
                         !.pc = IF replicates(Top.req, r.resp) THEN "replicate" ELSE "return"])
    /\ capplied' = capplied \cup {[node |-> Top.node, leader |-> Top.saw]}
    /\ UNCHANGED <<cresp, sent, ctable0, creqs, cchanges, is_leader, leader_id>>
    /\ UNCHANGED notCluster

\* _replicate_to_secondaries: one turn of the loop over the peers.
ReplicateSend(out) ==
    /\ chain # <<>>
    /\ Top.pc = "replicate"
    /\ LET to == peers(Top.node)[Top.idx]
           pl == replicate_payload(Top.req)
       IN /\ sent' = Append(sent, [from |-> Top.node, to |-> to, payload |-> pl,
                                 outcome |-> out])
          /\ ctable' = IF out = "down" THEN ctable
                       ELSE [ctable EXCEPT ![to] = replicate_apply(@, pl)]
    /\ chain' = SetTop([Top EXCEPT
                   !.idx = @ + 1,
                   !.pc = IF Top.idx = Len(peers(Top.node)) THEN "return" ELSE "replicate"])
    /\ UNCHANGED <<cresp, capplied, ctable0, creqs, cchanges, is_leader, leader_id>>
    /\ UNCHANGED notCluster

\* A route returns: to the route that forwarded to it, or to the client.
RouteReturn ==
    /\ chain # <<>>
    /\ Top.pc = "return"
    /\ IF Len(chain) = 1
       THEN /\ cresp' = Top.resp
            /\ chain' = <<>>
       ELSE /\ UNCHANGED cresp
            /\ chain' = [i \in 1..(Len(chain) - 1) |->
                            IF i = Len(chain) - 1
                            THEN [chain[i] EXCEPT !.pc = "return", !.path = "forwarded",
                                                  !.got = Top.resp, !.resp = relay(Top.resp)]
                            ELSE chain[i]]
    /\ UNCHANGED <<ctable, sent, capplied, ctable0, creqs, cchanges, is_leader, leader_id>>
    /\ UNCHANGED notCluster

\* The coordinator message of a node that holds itself leader arrives at node n.
CoordinatorArrives(n, l) ==
    /\ l # n
    /\ is_leader[l]
    /\ cchanges < MaxChanges
    /\ cchanges' = cchanges + 1
    /\ receive_coordinator(n, l)
    /\ UNCHANGED <<ctable, chain, cresp, sent, capplied, ctable0, creqs>>
    /\ UNCHANGED <<storeVars, threadVars, masterVars, beatVars, started, serving,
                   threads, refused, dropped, timeouts>>

ClusterNext ==
    \/ \E n \in Nodes, req \in ClusterRequests : ClientRequest(n, req)
    \/ RouteCheck
    \/ RouteLookup
    \/ RouteForward
    \/ RouteUnavailable
    \/ RouteApply
    \/ \E out \in Outcomes : ReplicateSend(out)
    \/ RouteReturn
    \/ \E n, l \in Nodes : CoordinatorArrives(n, l)

\* ---------------------------------------- concurrent writes at the leader

\* The node with the highest id.
Highest == CHOOSE n \in Nodes : \A m \in Nodes : m <= n

\* The node all nodes follow.
Primary == CHOOSE n \in Nodes : is_leader[n]

\* The POST /set that request thread w of the leader's server handles: the
\* clients write different values to one key.
ClientSet(w) ==
    Req("SET", "k1", CASE w = 1 -> "a" [] w = 2 -> "A b" [] OTHER -> "", <<>>)

\* What a request thread of the leader leaves alone.
WriteFrame ==
    UNCHANGED <<lock, storeVars, electionVars, masterVars, beatVars,
                chain, cresp, sent, capplied, ctable0, creqs, cchanges>>

\* The set route at the leader: the store call, under the lock of the store.
LeaderSet(w) ==
    /\ tpc[w] = "start"
    /\ handles_locally(is_leader[Primary])
    /\ LET r == route_store(ctable[Primary], ClientSet(w))
       IN /\ ctable' = [ctable EXCEPT ![Primary] = r.table]
          /\ tpc' = [tpc EXCEPT ![w] = IF replicates(ClientSet(w), r.resp)
                                       THEN "replicate" ELSE "return"]
    /\ UNCHANGED tdone
    /\ WriteFrame

\* _replicate_to_secondaries in thread w: the post to the next peer, which its
\* replicate route handles before the post returns.
LeaderReplicate(w) ==
    /\ tpc[w] = "replicate"
    /\ LET to == peers(Primary)[tdone[w] + 1]
       IN ctable' = [ctable EXCEPT
                        ![to] = replicate_apply(@, replicate_payload(ClientSet(w)))]
    /\ tdone' = [tdone EXCEPT ![w] = @ + 1]
    /\ tpc' = [tpc EXCEPT ![w] = IF tdone[w] + 1 = Len(peers(Primary))
                                 THEN "return" ELSE "replicate"]
    /\ WriteFrame

\* return jsonify(result): the client's write has completed.
LeaderReturn(w) ==
    /\ tpc[w] = "return"
    /\ tpc' = [tpc EXCEPT ![w] = "done"]
    /\ UNCHANGED <<tdone, ctable>>
    /\ WriteFrame

WritesNext ==
    \/ \E w \in Callers : LeaderSet(w)
    \/ \E w \in Callers : LeaderReplicate(w)
    \/ \E w \in Callers : LeaderReturn(w)

\* ------------------------------------------------------------ heartbeats

\* The clock is read up to MaxNow seconds after the nodes were built.
MaxNow == 3

NoBeat == [from |-> NoLeader, to |-> NoLeader]

\* LeaderElection.__init__: self._last_heartbeat = time.time()
BeatInit ==
    /\ last_heartbeat = [n \in Nodes |-> 0]
    /\ now = 0
    /\ beat = NoBeat

\* The fields of a LeaderElection that the heartbeat route can reach.
Election(n) ==
    [leader_id |-> leader_id[n], is_leader |-> is_leader[n],
     election_in_progress |-> election_in_progress[n],
     last_heartbeat |-> last_heartbeat[n]]

\* A receive_heartbeat that takes the heartbeat of any sender.
receive_heartbeat_any(e, from_leader, t) == [e EXCEPT !.last_heartbeat = t]

\* LeaderElection.receive_heartbeat at clock reading t
receive_heartbeat(e, from_leader, t) ==
    IF from_leader = e.leader_id THEN [e EXCEPT !.last_heartbeat = t] ELSE e

\* time.sleep(1) of the monitor loops: a second passes.
Advance ==
    /\ now < MaxNow
    /\ now' = now + 1
    /\ UNCHANGED <<last_heartbeat, beat, storeVars, electionVars, threadVars,
                   masterVars, clusterVars>>

\* _send_heartbeats of a node that has is_leader set: the post to one peer, and
\* the heartbeat route of that peer.
Heartbeat(from, to) ==
    /\ is_leader[from]
    /\ to # from
    /\ LET e == receive_heartbeat(Election(to), from, now)
       IN /\ leader_id' = [leader_id EXCEPT ![to] = e.leader_id]
          /\ is_leader' = [is_leader EXCEPT ![to] = e.is_leader]
          /\ election_in_progress' =
                [election_in_progress EXCEPT ![to] = e.election_in_progress]
          /\ last_heartbeat' = [last_heartbeat EXCEPT ![to] = e.last_heartbeat]
    /\ beat' = [from |-> from, to |-> to]
    /\ UNCHANGED <<now, started, serving, threads, refused, dropped, timeouts>>
    /\ UNCHANGED <<storeVars, threadVars, masterVars, clusterVars>>

HeartbeatNext ==
    \/ Advance
    \/ \E from, to \in Nodes : Heartbeat(from, to)

\* ------------------------------------------- bulk_set of any list of items

\* The lists the /bulkset route passes on: it tests only that 'items' is a list.
\* <<"k2">> is an element that is no (key, value) pair.
RouteItems ==
    { <<<<"k1", "a">>>>,
      <<<<"k1", "a">>, <<"k2">>>>,
      <<<<"k2">>>> }

\* `key, value = item[0], item[1]` raises IndexError.
Unpacks(item) == Len(item) >= 2

RECURSIVE bulk_loop(_, _)
\* KVStore.bulk_set, step 2: the loop stops at the item that raises.
bulk_loop(st, items) ==
    IF items = <<>> THEN [st |-> st, raised |-> FALSE]
    ELSE IF ~Unpacks(Head(items)) THEN [st |-> st, raised |-> TRUE]
    ELSE bulk_loop(store_set(st, Head(items)[1], Head(items)[2]), Tail(items))

RECURSIVE replay_loop(_, _)
\* KVStore._replay_wal: the loop over the entries; a BULK_SET item that does not
\* unpack raises out of __init__.
replay_loop(st, entries) ==
    IF entries = <<>> THEN [st |-> st, raised |-> FALSE]
    ELSE LET e == Head(entries)
         IN IF e.op = "BULK_SET" /\ \E i \in 1..Len(e.items) : ~Unpacks(e.items[i])
            THEN [st |-> st, raised |-> TRUE]
            ELSE replay_loop(replay_entry(st, e), Tail(entries))

\* POST /bulkset with a list: KVStore.bulk_set up to step 2; an exception leaves
\* the lock and the route, and Flask answers 500.
BulkRoute(items, t) ==
    /\ Idle
    /\ MayCall
    /\ used' = [used EXCEPT !.calls = @ + 1]
    /\ walFile' = wal_append_bulk(walFile, items, t)
    /\ LET r == bulk_loop(Mem(data, index, emb), items)
       IN /\ data' = r.st.data
          /\ index' = r.st.index
          /\ emb' = r.st.emb
          /\ IF r.raised
             THEN /\ ret' = Response("BULK_SET", None, FALSE, 0, "500", {}, Observed)
                  /\ UNCHANGED <<pc, task, cur, bulk>>
             ELSE /\ ret' = NoRet
                  /\ pc' = "applied"
                  /\ task' = "op"
                  /\ cur' = Entry("BULK_SET", None, None, items, seq_of(t))
                  /\ bulk' = [items |-> items, keys |-> ItemKeys(items)]
    /\ debug' = FALSE
    /\ UNCHANGED <<dataFile, indexFile, embFile, acked, found>>
    /\ UNCHANGED <<skipped, closed>>
    /\ UNCHANGED notStore

\* KVStore.__init__ on restart, as Recover; when the replay raises no store is
\* constructed and the process ends.
RecoverLoop ==
    /\ pc = "down"
    /\ LET entries == wal_replay(walFile)
           r == replay_loop(Mem(load_snapshot(dataFile), idx_load(indexFile),
                                emb_load(embFile)), entries)
       IN IF r.raised
          THEN /\ pc' = "crashed"
               /\ UNCHANGED <<data, index, emb>>
          ELSE /\ data' = r.st.data
               /\ index' = r.st.index
               /\ emb' = r.st.emb
               /\ pc' = IF entries = <<>> THEN "started" ELSE "replayed"
    /\ task' = "recover"
    /\ UNCHANGED <<dataFile, walFile, indexFile, embFile, cur, debug, ret, acked,
                   bulk, used, found>>
    /\ UNCHANGED <<skipped, closed>>
    /\ UNCHANGED notStore

BulkNext ==
    \/ \E items \in RouteItems, t \in Clock : BulkRoute(items, t)
    \/ SaveOpen
    \/ SaveWrite
    \/ Return
    \/ Kill
    \/ RecoverLoop
    \/ IndexSaveOpen
    \/ IndexSaveWrite
    \/ StartWorker

\* ---------------------------------------- search_text beside the writers

\* The values the writers set, the queries the searching thread asks.
SetValues == {"a", "A b"}

SearchQueries == {"a", "B"}

\* What the searching thread and a set in progress leave alone.
SearchFrame ==
    UNCHANGED <<indexFile, embFile, pc, task, debug, found, bulk, used,
                skipped, closed, electionVars, masterVars, clusterVars, beatVars>>

\* KVStore.set inside the store lock, up to the end of InvertedIndex.remove:
\* the WAL record, the Table, and with an old value the remove of update().
SetBegin(w, key, value, t) ==
    /\ w \in Writers
    /\ tpc[w] = "locked"
    /\ walFile' = wal_append(walFile, "SET", key, value, t)
    /\ data' = [data EXCEPT ![key] = value]
    /\ index' = IF Truthy(data[key]) THEN idx_remove(index, key) ELSE index
    /\ cur' = Entry("SET", key, value, <<>>, seq_of(t))
    /\ tpc' = [tpc EXCEPT ![w] = "add"]
    /\ UNCHANGED <<lock, tdone, emb, dataFile, ret, acked>>
    /\ SearchFrame

\* KVStore.set from InvertedIndex.add to the return: the add, the embedding,
\* _save.
SetEnd(w) ==
    /\ w \in Writers
    /\ tpc[w] = "add"
    /\ index' = idx_add(index, cur.key, cur.value)
    /\ emb' = emb_add(emb, cur.key, cur.value)
    /\ dataFile' = File("ok", data)
    /\ acked' = Ack(acked, cur)
    /\ cur' = NoEntry
    /\ tdone' = [tdone EXCEPT ![w] = @ + 1]
    /\ tpc' = [tpc EXCEPT ![w] = "unlock"]
    /\ UNCHANGED <<lock, data, walFile, ret>>
    /\ SearchFrame

\* KVStore.search_text: InvertedIndex.search under the index's own lock; the
\* store lock is not taken.
SearchRun(query, mode) ==
    /\ tpc[Reader] = "start"
    /\ tdone[Reader] < MaxGets
    /\ ret' = Response(mode, query, TRUE, 0, None, search_text(index, query, mode),
                       Observed)
    /\ tdone' = [tdone EXCEPT ![Reader] = @ + 1]
    /\ UNCHANGED <<lock, tpc, data, index, emb, dataFile, walFile, cur, acked>>
    /\ SearchFrame

SearchNext ==
    \/ \E w \in Writers : Acquire(w)
    \/ \E w \in Writers, k \in Keys, v \in SetValues, t \in Clock : SetBegin(w, k, v, t)
    \/ \E w \in Writers : SetEnd(w)
    \/ \E w \in Writers : Release(w)
    \/ \E q \in SearchQueries, mode \in Modes : SearchRun(q, mode)

\* ------------------------------------------------------ the specifications

vars == <<storeVars, electionVars, threadVars, masterVars, clusterVars, beatVars>>

\* The single-node store; no cluster runs.
Init == StoreInit /\ ElectionInit /\ ThreadsInit /\ MasterInit /\ ClusterVarsInit /\ BeatInit

Next == StoreNext

Spec == Init /\ [][Next]_vars

\* The election of the 3-node cluster; the stores stay as constructed.
InitElection == StoreInit /\ pc = "idle" /\ ElectionInit /\ ThreadsInit /\ MasterInit /\ ClusterVarsInit /\ BeatInit

SpecElection == InitElection /\ [][ElectionNext]_vars

\* The request threads of one server on a new data directory.
InitThreads == StoreInit /\ pc = "idle" /\ ElectionInit /\ ThreadsInit /\ MasterInit /\ ClusterVarsInit /\ BeatInit

SpecThreads == InitThreads /\ [][ThreadsNext]_vars

\* The request threads and the snapshot worker of one server.
InitSnapshot == StoreInit /\ pc = "idle" /\ ElectionInit /\ SnapshotInit /\ MasterInit /\ ClusterVarsInit /\ BeatInit

SpecSnapshot == InitSnapshot /\ [][SnapshotNext]_vars

\* A restart on the data directory of an earlier run.
InitStartup == RunInit /\ ElectionInit /\ ThreadsInit /\ MasterInit /\ ClusterVarsInit /\ BeatInit

SpecStartup == InitStartup /\ [][StartupNext]_vars

\* The cluster after its startup elections, serving client requests.
InitCluster ==
    /\ StoreInit /\ pc = "idle" /\ ThreadsInit /\ MasterInit /\ ClusterVarsInit /\ BeatInit
    /\ \E c \in ElectionConfigs :
          /\ is_leader = [n \in Nodes |-> c.lead[n]]
          /\ leader_id = [n \in Nodes |-> c.follow[n]]
    /\ election_in_progress = [n \in Nodes |-> FALSE]
    /\ started = [n \in Nodes |-> TRUE]
    /\ serving = [n \in Nodes |-> TRUE]
    /\ threads = EmptyBag
    /\ refused = TRUE
    /\ dropped = FALSE
    /\ timeouts = 0

SpecCluster == InitCluster /\ [][ClusterNext]_vars

\* The cluster with node 3 the leader of all, serving concurrent writes.
InitWrites ==
    /\ InitCluster
    /\ \A n \in Nodes : leader_id[n] = Highest /\ (is_leader[n] <=> n = Highest)

SpecWrites == InitWrites /\ [][WritesNext]_vars

\* The cluster after its startup elections: the leaders send heartbeats.
SpecHeartbeat == InitCluster /\ [][HeartbeatNext]_vars

\* Every thread runs on, and a monitor that keeps missing heartbeats times out.
FailoverFairness ==
    /\ \A t \in ThreadSpace : WF_vars(ThreadStep(t))
    /\ \A n \in Nodes : WF_vars(FollowerTimeout(n))

\* The cluster after its startup elections, losing a leader.
SpecFailover == InitCluster /\ [][FailoverNext]_vars /\ FailoverFairness

\* The masterless cluster.
SpecMasterless == InitThreads /\ [][MasterNext]_vars

\* The masterless cluster in a run of sets whose posts all arrive.
SpecSets == InitThreads /\ [][SetsNext]_vars

\* The single-node store behind the /bulkset route.
SpecBulk == InitThreads /\ [][BulkNext]_vars

\* The request threads of one server: two that set, one that searches.
SpecSearch == InitThreads /\ [][SearchNext]_vars

\* ------------------------------------------------------------- the claims

\* The state __init__ has rebuilt, before the store serves.
Restarted == pc = "started"

\* C1: after a kill at any instant and the restart, the Table holds for every key
\* the effect of the last acknowledged mutation of that key, or that of the call
\* that was in progress when the process was killed.
C1_AckedSurvivesKill ==
    Restarted =>
        \A k \in Keys :
            \/ data[k] = acked[k]
            \/ k \in EntryKeys(cur) /\ data[k] = EntryEffect(cur, k)

\* C2: after a kill and the restart the latest bulk_set is all or nothing: every
\* item is in the Table (its keys written since aside), or, when the bulk_set
\* was not acknowledged, none is and its keys are as they were acknowledged before.
C2_BulkAllOrNothing ==
    (Restarted /\ bulk # NoBulk) =>
        \/ BulkApplied(bulk, data)
        \/ /\ cur.op = "BULK_SET"
           /\ cur.items = bulk.items
           /\ \A k \in bulk.keys : data[k] = acked[k]

\* C3: while the process has not been killed, get(k) returns success with the value
\* of the most recent completed set or bulk_set item of k, returns failure with
\* null when k was never written or was deleted last, and changes no state.
C3_GetReturnsLastWrite ==
    (ret.op = "GET" /\ ~EverKilled) =>
        /\ ret.success = (acked[ret.key] # None)
        /\ ret.value = acked[ret.key]
        /\ ret.pre = Observed

\* C3 witness: a get reads back the empty string, the last item of a bulk_set
\* that names its key twice.
C3_Witness ==
    /\ ret.op = "GET"
    /\ ~EverKilled
    /\ ret.success
    /\ ret.value = ""
    /\ bulk.items = <<<<"k1", "A b">>, <<"k1", "">>>>

\* C4: delete(k) fails with seq null exactly when k is not in the Table, and then
\* appends nothing and changes no stored state; when k is in the Table it succeeds
\* with the seq of the DELETE entry it appended.
C4_DeleteContract ==
    ret.op = "DELETE" =>
        /\ ret.success = found
        /\ ~ret.success => (ret.seq = 0 /\ ret.pre = Observed)
        /\ ret.success =>
              /\ ret.seq # 0
              /\ walFile # <<>>
              /\ walFile[Len(walFile)].ent = Entry("DELETE", ret.key, None, <<>>, ret.seq)

\* C4 witness: a delete fails on the key that the delete before it removed.
C4_Witness ==
    /\ ret.op = "DELETE"
    /\ ~ret.success
    /\ walFile # <<>>
    /\ walFile[Len(walFile)].ent.op = "DELETE"
    /\ walFile[Len(walFile)].ent.key = ret.key

\* C5: the seq values of the entries of the WAL are strictly increasing in append
\* order.
C5_SeqStrictlyIncreasing ==
    \A i, j \in 1..Len(walFile) :
        (i < j /\ walFile[i].ent # NoEntry /\ walFile[j].ent # NoEntry)
            => walFile[i].ent.seq < walFile[j].ent.seq

\* Key k is in the posting of word w exactly when k is live and w is a token of
\* its value.
Coherent(d, idx) ==
    \A k \in Keys, w \in Words :
        k \in idx[w] <=> (d[k] # None /\ w \in TokenSet(d[k]))

\* C6: in a running store that has not been killed, the inverted index is coherent
\* with the Table.
C6_IndexCoherent == (~EverKilled /\ pc # "down") => Coherent(data, index)

\* C6 witness: the second item of a bulk_set overwrote the first with the empty
\* string.
C6_Witness ==
    /\ ~EverKilled
    /\ Idle
    /\ data["k1"] = ""
    /\ bulk.items = <<<<"k1", "A b">>, <<"k1", "">>>>
    /\ acked["k1"] = ""

\* What search_text is to return from Table d.
Matching(d, query, mode) ==
    LET live == {k \in Keys : d[k] # None}
    IN IF TokenSet(query) = {} THEN {}
       ELSE IF mode = "AND"
            THEN {k \in live : TokenSet(query) \subseteq TokenSet(d[k])}
            ELSE {k \in live : TokenSet(query) \cap TokenSet(d[k]) # {}}

\* C7: search_text returns exactly the live keys whose value holds all (AND) or
\* any (OR) of the query's tokens, and nothing for a query without tokens.
C7_SearchExact ==
    ret.op \in Modes => ret.keys = Matching(data, ret.key, ret.op)

\* C8: from the snapshot, the inverted index and the WAL on disk, replaying the
\* WAL twice gives the Table and the inverted index that replaying it once gives.
C8_ReplayIdempotent ==
    pc = "down" =>
        LET entries == wal_replay(walFile)
            once == replay_wal(Mem(load_snapshot(dataFile), idx_load(indexFile),
                                   emb_load(embFile)), entries)
            twice == replay_wal(once, entries)
        IN twice.data = once.data /\ twice.index = once.index

\* No thread is inside start_election or _become_leader (so no election or
\* coordinator message is in flight) and no node has an election in progress.
Quiescent ==
    /\ threads = EmptyBag
    /\ \A n \in Nodes : ~election_in_progress[n]

Leaders == {n \in Nodes : is_leader[n]}

\* C9: in every quiescent state of the cluster at most one node has is_leader
\* true, also when election or coordinator messages were lost before.
C9_AtMostOneLeader ==
    (Quiescent /\ \A n \in Nodes : serving[n]) => Cardinality(Leaders) <= 1

\* C10: when all nodes are alive and the network has lost or delayed no election
\* or coordinator message, once the startup elections have quiesced the node with
\* the highest id is the only leader and every node follows it.
C10_HighestIdLeads ==
    (Quiescent /\ (\A n \in Nodes : serving[n]) /\ ~dropped /\ timeouts = 0) =>
        /\ Leaders = {Highest}
        /\ \A n \in Nodes : leader_id[n] = Highest

\* No cluster start delivers every message: when all nodes listen, some POST of
\* a startup election was refused by a node still inside its own startup election.
StartupRefuses == (\A n \in Nodes : serving[n]) => refused

\* C17: a set or bulk_set returns success with the seq of the WAL entry it
\* appended, also when debug skipped the snapshot write; and after a kill and the
\* restart every key last written by such a call holds the acknowledged value (or
\* the effect of the call that was in progress at the kill).
C17_DebugWriteRecovered ==
    /\ ret.op \in {"SET", "BULK_SET"} =>
          /\ ret.success
          /\ walFile # <<>>
          /\ walFile[Len(walFile)].ent.op = ret.op
          /\ walFile[Len(walFile)].ent.seq = ret.seq
    /\ Restarted =>
          \A k \in skipped :
              \/ data[k] = acked[k]
              \/ k \in EntryKeys(cur) /\ data[k] = EntryEffect(cur, k)

\* C18: when shutdown() has returned, the snapshot file holds the Table the
\* store had and the WAL is empty; the store restarted on the directory has
\* exactly that Table.
C18_ShutdownRestart ==
    /\ (pc = "down" /\ closed.on) =>
          (dataFile = File("ok", closed.table) /\ walFile = <<>>)
    /\ (Restarted /\ closed.on) => data = closed.table

\* C18 witness: the restart after a shutdown that followed a write whose snapshot
\* write was skipped.
C18_Witness ==
    /\ Restarted
    /\ closed.on
    /\ skipped # {}
    /\ \E k \in skipped : data[k] # None

\* C20: every entry whose append returned since the last clear is among the
\* entries replay returns, also when it was appended after a torn record.
C20_AppendedReplayed ==
    \A i \in 1..Len(walFile) :
        walFile[i].ent # NoEntry =>
            \E j \in 1..Len(wal_replay(walFile)) : wal_replay(walFile)[j] = walFile[i].ent

\* The shared keys of Table d all hold the values of one bulk_set, or none does.
OneBulk(d) ==
    \/ \A k \in ItemKeys(WriterItems(1)) : d[k] = None
    \/ \E w \in Writers :
          \A k \in ItemKeys(WriterItems(w)) : d[k] = LastItem(WriterItems(w), k)

\* C16: no get observes a Table with part of one bulk_set applied, and when all
\* calls have returned every shared key holds the value of the bulk_set whose WAL
\* entry was appended last.
C16_BulkSetExclusive ==
    /\ ret.op = "GET" => OneBulk(ret.pre[1])
    /\ (\A t \in Callers : tpc[t] = "done") =>
          \A k \in ItemKeys(WriterItems(1)) :
              data[k] = LastItem(walFile[Len(walFile)].ent.items, k)

\* C16 witness: both bulk_set calls and the gets have returned, and a get ran
\* between the two bulk_set calls.
C16_Witness ==
    /\ \A t \in Callers : tpc[t] = "done"
    /\ Len(walFile) = 2
    /\ ret.op = "GET"
    /\ ret.value # None
    /\ ret.value # data[ret.key]

\* Every replicate message of every write was received and handled, and no
\* client write is under way.
Replicated ==
    /\ flight = {} /\ mapply = {} /\ ~mlost
    /\ \A n \in MNodes : ~mlocal[n].on

\* C13: once every node has been delivered every replicate message for the key,
\* all nodes store the same value for it.
C13_Convergence ==
    (Replicated /\ wr # <<>>) => \A n, m \in MNodes : mtable[n] = mtable[m]

\* C14: when two nodes set the key and both writes are replicated everywhere,
\* every node ends with the value of the write with the larger timestamp.
C14_LargerTimestampWins ==
    (/\ Replicated
     /\ issued = 2 /\ Len(wr) = 2
     /\ wr[1].origin # wr[2].origin
     /\ wr[1].op = "SET" /\ wr[2].op = "SET")
        => \A n \in MNodes : mtable[n] = wr[2].value

\* C15: a set is applied by the node that takes it, and when it is the only write
\* to the key every node its replicate message was delivered to holds its value.
C15_SingleSetReadable ==
    /\ \A n \in MNodes :
          (mlocal[n].on /\ mlocal[n].op = "SET") =>
              (mlocal[n].success /\ (issued = 1 => mtable[n] = mlocal[n].value))
    /\ (issued = 1 /\ Len(wr) = 1 /\ wr[1].op = "SET") =>
          /\ mtable[wr[1].origin] = wr[1].value
          /\ \A n \in MNodes : <<1, n>> \in delivered => mtable[n] = wr[1].value

\* C15 witness: the only write is a set, and both its messages were delivered.
C15_Witness ==
    /\ issued = 1 /\ Len(wr) = 1 /\ wr[1].op = "SET"
    /\ \A n \in mpeers(wr[1].origin) : <<1, n>> \in delivered

\* C12: a route that read is_leader false never calls its own store; the peer
\* named by leader_id receives the request as the client made it, and its response
\* is the one returned; with no leader known the route answers 503 and no Table
\* and no peer has been touched.
C12_NonLeaderForwards ==
    /\ \A a \in capplied : a.leader
    /\ \A i \in 2..Len(chain) :
          /\ chain[i].node = chain[i - 1].target
          /\ chain[i].req = chain[i - 1].req
    /\ \A i \in 1..Len(chain) :
          /\ chain[i].path = "forwarded" => chain[i].resp = chain[i].got
          /\ chain[i].path = "noleader" =>
                /\ chain[i].resp.status = 503
                /\ ctable = ctable0
                /\ sent = <<>>

\* The replicate post carries the operation of the request.
Carries(pl, req) ==
    /\ pl.op = req.op /\ pl.key = req.key /\ pl.value = req.value
    /\ req.op = "BULK_SET" => (pl.has_items /\ pl.items = req.items)

\* C19: when the leader's route is about to answer a set, delete or bulk_set that
\* succeeded, it has posted one replicate message with that operation to each
\* peer, after its own store call, and the answer is the store's result whatever
\* became of the posts; after a delete of an absent key it has posted none.
C19_LeaderReplicates ==
    /\ (chain # <<>> /\ Top.path = "local" /\ Top.pc = "return" /\ Top.req.op # "GET") =>
          IF Top.resp.success
          THEN /\ Len(sent) = Len(peers(Top.node))
               /\ \A i \in 1..Len(sent) :
                     /\ sent[i].to = peers(Top.node)[i]
                     /\ Carries(sent[i].payload, Top.req)
               /\ Top.resp = Resp(200, TRUE, None, None)
          ELSE /\ sent = <<>>
               /\ Top.resp.status = 404
    /\ (chain # <<>> /\ sent # <<>>) => cresp = NoResp
    /\ \A i \in 1..Len(sent) : \E a \in capplied : a.node = sent[i].from

\* The surviving node with the highest id leads and all survivors follow it.
HighestAlive == CHOOSE h \in Alive : \A m \in Alive : m <= h

Settled ==
    /\ is_leader[HighestAlive]
    /\ \A m \in Alive : leader_id[m] = HighestAlive

\* C11: after the crash of a leader, with the other nodes alive and every message
\* between them delivered, eventually the surviving node with the highest id has
\* is_leader true and every survivor's leader_id names it.
C11_FailoverElects == (Alive # Nodes) ~> Settled

\* The value Table d holds for key k is the one in snapshot file f, or the effect
\* of an entry that replay reads from WAL w.
Covered(d, f, w, k) ==
    \/ d[k] = load_snapshot(f)[k]
    \/ \E i \in 1..Len(wal_replay(w)) :
          /\ k \in EntryKeys(wal_replay(w)[i])
          /\ EntryEffect(wal_replay(w)[i], k) = d[k]

\* C21: the WAL entry is durable before the Table changes: in every state of a
\* running store each Table entry that differs from the snapshot on disk is
\* covered by an entry of the WAL, and so is every value a get returns.
C21_WalBeforeTable ==
    /\ pc # "down" => \A k \in Keys : Covered(data, dataFile, walFile, k)
    /\ (ret.op = "GET" /\ ret.success) =>
          Covered(ret.pre[1], ret.pre[4], ret.pre[5], ret.key)

\* The writers whose bulk_set has written its WAL record.
Appended == {w \in Writers : tpc[w] \in {"apply", "save", "unlock", "done"}}

\* The Table a restart would rebuild from the files as they are.
Rebuilt == replay_wal(Mem(load_snapshot(dataFile), EmptyIndex, EmptyEmb),
                      wal_replay(walFile)).data

C23_SnapshotAtomic == dataFile.st # "corrupt"

\* The records written whole to the WAL file, in file order.
RECURSIVE Written(_)
Written(file) ==
    IF file = <<>> THEN <<>>
    ELSE IF Head(file).ent # NoEntry
         THEN <<Head(file).ent>> \o Written(Tail(file))
         ELSE Written(Tail(file))

\* The entries applied in order to an empty Table: every key holds what the
\* last entry that names it gave it.
Applied(entries) ==
    [k \in TableKeys |->
        LET at == {i \in 1..Len(entries) : k \in EntryKeys(entries[i])}
        IN IF at = {} THEN None
           ELSE EntryEffect(entries[CHOOSE i \in at : \A j \in at : j <= i], k)]

\* _replay_wal has run and its save has not begun.
Replayed == task = "recover" /\ pc \in {"replayed", "started"}

\* C24: a startup that finds the snapshot file missing or unparseable goes
\* through, and the Table it recovers is the WAL entries applied in order to
\* an empty Table.
C24_StartupWithoutSnapshot ==
    Replayed /\ dataFile.st \in {"missing", "corrupt"} =>
        data = Applied(Written(walFile))

\* _replay_wal has returned: the store is about to start its snapshot thread.
Recovered == task = "recover" /\ pc = "started"

\* C25: no step of the startup changes the WAL file, and when the recovery
\* has completed the snapshot file holds the recovered Table, whatever the
\* snapshot and the WAL were, an empty WAL included.
C25_RecoveryWritesSnapshot ==
    /\ [][walFile' = walFile]_vars
    /\ [](Recovered => dataFile = File("ok", data))

\* C25 as amended: no step of the startup changes the WAL file; when the WAL
\* holds an entry that replays, the recovery ends with a new snapshot that
\* holds the recovered Table; when it holds none, the snapshot file is left
\* as it was, and it loads to the recovered Table.
C25_RecoverySnapshot ==
    /\ [][walFile' = walFile]_vars
    /\ [][wal_replay(walFile) = <<>> => dataFile' = dataFile]_vars
    /\ [](Recovered /\ wal_replay(walFile) # <<>> => dataFile = File("ok", data))
    /\ [](Recovered => load_snapshot(dataFile) = data)

\* A recovery over a snapshot that holds k1 and a WAL that sets the empty key
\* in a bulk has completed.
C25_Witness ==
    /\ Recovered
    /\ wal_replay(walFile) # <<>>
    /\ data["k1"] # None
    /\ data[""] # None
    /\ dataFile = File("ok", data)

\* C26: after a kill and the recovery (the persisted index and the snapshot
\* loaded, the WAL replayed), key k is in the posting of word w exactly when
\* k is live in the recovered Table and w is a token of its value.
C26_IndexCoherentAfterRecovery ==
    Replayed =>
        \A k \in TableKeys, w \in Words :
            k \in index[w] <=> (data[k] # None /\ w \in TokenSet(data[k]))

\* C27: in every state of a running store, one rebuilt after a kill included,
\* every live key whose value is neither empty nor only whitespace has an
\* entry in the embedding index.
C27_LiveKeysEmbedded ==
    pc # "down" =>
        \A k \in TableKeys : (data[k] # None /\ ~IsBlank(data[k])) => emb[k] # None

\* C28: the step that ends a node's election after a higher peer answered OK
\* leaves the node a Follower: is_leader false and election_in_progress
\* false, whatever it was before.
C28_YieldIsFollower ==
    [][\A t \in Running :
          ElectionClear(t) =>
              /\ ~is_leader'[t.node]
              /\ ~election_in_progress'[t.node]]_vars

\* C29: a heartbeat from L sets the receiver's last_heartbeat only when L is
\* the leader_id the receiver holds; a heartbeat from any other L leaves its
\* leader_id, is_leader, election_in_progress and last_heartbeat as they were.
C29_HeartbeatFrame ==
    [][\A from, to \in Nodes :
          Heartbeat(from, to) =>
              /\ from = leader_id[to] => last_heartbeat'[to] = now
              /\ from # leader_id[to] => last_heartbeat' = last_heartbeat
              /\ leader_id' = leader_id
              /\ is_leader' = is_leader
              /\ election_in_progress' = election_in_progress]_vars

\* A node that follows one leader has received, later, the heartbeat of
\* another: the clock reading it keeps is the older one.
C29_Witness ==
    /\ beat # NoBeat
    /\ beat.from # leader_id[beat.to]
    /\ leader_id[beat.to] # NoLeader
    /\ last_heartbeat[beat.to] > 0
    /\ last_heartbeat[beat.to] < now

\* C30: with one leader that all follow and every replicate post delivered,
\* once all the client writes have completed the Table of every follower
\* equals the Table of the leader.
C30_FollowersEqualLeader ==
    (\A w \in Callers : tpc[w] = "done") =>
        \A n \in Nodes : ctable[n] = ctable[Primary]

\* C31: a node that has no vector clock for the key applies the replicate
\* message it receives and holds the message's clock afterwards; and a message
\* whose largest timestamp is smaller than that of a message the node has
\* received before is not applied.
C31_FirstMessageAdoptsClock ==
    [][\A w \in 1..Len(wr), n \in MNodes :
          ReplicateMerge(w, n) =>
              /\ ~mclock[n].known =>
                    /\ <<w, n>> \in mapply'
                    /\ mclock'[n] = Known(wr[w].clock)
              /\ (\E v \in 1..Len(wr) :
                     /\ <<v, n>> \in delivered \cup mapply
                     /\ clk_max(wr[v].clock) > clk_max(wr[w].clock))
                    => <<w, n>> \notin mapply']_vars

\* The largest timestamp clock c holds for node id, under any key (0: none).
NodeTs(c, id) ==
    LET ts == {c[i].ts : i \in {j \in 1..Len(c) : c[j].key.id = id}}
    IN IF ts = {} THEN 0 ELSE CHOOSE m \in ts : \A t \in ts : t <= m

Larger(a, b) == IF a >= b THEN a ELSE b

\* C32: a node that has a clock for the key drops a replicate message whose
\* largest timestamp is not greater than the largest of its own clock: its
\* store and its clock stay as they are; when the remote one is greater the
\* operation is applied and every entry of the clock becomes, for its node,
\* the larger of the local and the remote timestamp.
C32_MergeOrDrop ==
    [][\A w \in 1..Len(wr), n \in MNodes :
          (ReplicateMerge(w, n) /\ mclock[n].known) =>
              IF clk_max(wr[w].clock) > clk_max(mclock[n].c)
              THEN /\ <<w, n>> \in mapply'
                   /\ \A i \in 1..Len(mclock'[n].c) :
                         mclock'[n].c[i].ts =
                            Larger(NodeTs(mclock[n].c, mclock'[n].c[i].key.id),
                                   NodeTs(wr[w].clock, mclock'[n].c[i].key.id))
              ELSE /\ <<w, n>> \notin mapply'
                   /\ mclock'[n] = mclock[n]
                   /\ mtable' = mtable]_vars

\* C33: a bulk_set whose items hold an element that is no (key, value) pair is
\* answered as a bad request (400) and leaves the WAL, the Table and the indexes
\* as they were; no startup fails on a WAL the store wrote.
C33_MalformedBulkRejected ==
    /\ pc # "crashed"
    /\ (ret.op = "BULK_SET" /\ ~ret.success) =>
          /\ ret.value = "400"
          /\ pc = "idle" =>
                /\ walFile = ret.pre[5]
                /\ data = ret.pre[1]
                /\ index = ret.pre[2]
                /\ emb = ret.pre[3]

\* The inverted index a Table stands for.
TableIndex(d) ==
    [w \in Words |-> {k \in Keys : d[k] # None /\ w \in TokenSet(d[k])}]

\* C34: a search_text beside the writers returns what the index holds before or
\* after the whole set in progress, and a key whose old and new value both hold
\* the words asked for is in the result while it is overwritten.
C34_SearchSeesWholeWrites ==
    [][\A q \in SearchQueries, mode \in Modes :
          SearchRun(q, mode) =>
              /\ ret'.keys \in {search_text(TableIndex(acked), q, mode),
                                search_text(TableIndex(Ack(acked, cur)), q, mode)}
              /\ \A k \in Keys :
                    (/\ cur.op = "SET"
                     /\ cur.key = k
                     /\ acked[k] # None
                     /\ TokenSet(q) \subseteq TokenSet(acked[k]) \cap TokenSet(cur.value))
                        => k \in ret'.keys]_vars

C36_NoLowerLeader ==
    (Quiescent /\ \A n \in Nodes : serving[n]) =>
        \A n \in Nodes : leader_id[n] = NoLeader \/ leader_id[n] >= n

\* C37: a forwarded request is not forwarded again: in no state do two nodes,
\* neither with is_leader set, name each other in leader_id.
C37_NoForwardingCycle ==
    ~\E a, b \in Nodes :
        /\ a # b
        /\ ~is_leader[a] /\ leader_id[a] = b
        /\ ~is_leader[b] /\ leader_id[b] = a

\* C38: in every state of a running store, after a tick, a shutdown or a kill
\* and restart included, every key of the embedding index is a live key and its
\* embedding was computed from the value the Table holds for it.
C38_EmbeddingsOfLiveValues ==
    pc # "down" =>
        \A k \in TableKeys : emb[k] # None => (data[k] # None /\ emb[k] = data[k])

\* C39: a client delete that fails because the node's store does not hold the
\* key changes nothing: the store, the key's vector clock and the messages sent
\* are as they were before the route ran.
C39_FailedDeleteChangesNothing ==
    [][\A n \in MNodes :
          /\ (LocalStore(n, "DELETE", None) /\ mtable[n] = None) => mtable' = mtable
          /\ (LocalClock(n) /\ ~mlocal[n].success) =>
                /\ mtable' = mtable
                /\ mclock' = mclock
                /\ wr' = wr
                /\ flight' = flight]_vars

====
